---------------------------- MODULE Spec2Model ----------------------------
(***************************************************************************)
(* Model of the interview coach's speech scoring and feedback code:        *)
(*   - the batch engine of lib/audioProcessing.ts and lib/aiAnalysis.ts    *)
(*     (src/unnamed/part_004),                                             *)
(*   - AIFeedbackGenerator of lib/aiFeedback.ts (src/unnamed/part_003),    *)
(*   - SpeechAnalyzer (src/src/lib/speechAnalysis.ts), InterviewRecorder   *)
(*     and App.handleRecordingComplete.                                    *)
(*                                                                         *)
(* A text is a sequence of one-character strings, so that the regular      *)
(* expressions of the code are matched character by character.  A          *)
(* JavaScript number is a fraction n/d with d >= 0: d = 0 encodes the      *)
(* non-finite values that a division by zero produces (NaN = 0/0,          *)
(* Infinity = 1/0, -Infinity = -1/0).  Arithmetic on finite values is      *)
(* exact.  Word timings are integers in tenths of a second, confidences    *)
(* integers in hundredths, durations integers in seconds.                  *)
(***************************************************************************)
EXTENDS Integers, Sequences, FiniteSets, TLC

(***************************************************************************)
(* Characters and strings                                                  *)
(***************************************************************************)
UpperCase == <<"A", "B", "C", "D", "E", "F", "G", "H", "I", "J", "K", "L", "M", "N", "O", "P", "Q", "R", "S", "T", "U", "V", "W", "X", "Y", "Z">>
LowerCase == <<"a", "b", "c", "d", "e", "f", "g", "h", "i", "j", "k", "l", "m", "n", "o", "p", "q", "r", "s", "t", "u", "v", "w", "x", "y", "z">>
Digits == {"0", "1", "2", "3", "4", "5", "6", "7", "8", "9"}
UpperSet == {"A", "B", "C", "D", "E", "F", "G", "H", "I", "J", "K", "L", "M", "N", "O", "P", "Q", "R", "S", "T", "U", "V", "W", "X", "Y", "Z"}
LowerSet == {"a", "b", "c", "d", "e", "f", "g", "h", "i", "j", "k", "l", "m", "n", "o", "p", "q", "r", "s", "t", "u", "v", "w", "x", "y", "z"}
LowerOf == [c \in UpperSet |-> LowerCase[CHOOSE k \in 1..26 : UpperCase[k] = c]]

\* \w of a JavaScript regular expression: [A-Za-z0-9_]
IsWordChar(c) == c \in LowerSet \/ c \in UpperSet \/ c \in Digits \/ c = "_"

\* \s of a JavaScript regular expression (a blank is the only white space
\* of the transcripts considered)
Spaces == {" "}
IsSpace(c) == c \in Spaces

\* String.prototype.toLowerCase
LowerChar(c) == IF c \in UpperSet THEN LowerOf[c] ELSE c
toLowerCase(s) == [i \in 1..Len(s) |-> LowerChar(s[i])]

RECURSIVE SkipIn(_, _, _)
\* the end of the greedy run C* of s from position i, for a set C of
\* characters: the first position >= i whose character is not in C
\* (Len(s) + 1 when there is none)
SkipIn(s, i, C) == IF i > Len(s) \/ s[i] \notin C THEN i ELSE SkipIn(s, i + 1, C)

RECURSIVE SkipNotIn(_, _, _)
\* the same for the run [^C]*
SkipNotIn(s, i, C) == IF i > Len(s) \/ s[i] \in C THEN i ELSE SkipNotIn(s, i + 1, C)

(***************************************************************************)
(* Regular expressions                                                     *)
(***************************************************************************)
\* \b between s[i-1] and s[i], for i in 1..Len(s)+1
WordBoundary(s, i) ==
  LET before == i > 1 /\ IsWordChar(s[i - 1])
      after  == i <= Len(s) /\ IsWordChar(s[i])
  IN  before # after

\* the literal lit occurs in s at position i (case-sensitive)
LiteralAt(s, i, lit) ==
  /\ i + Len(lit) - 1 <= Len(s)
  /\ \A k \in 1..Len(lit) : s[i + k - 1] = lit[k]

\* the literal lit occurs in s at position i, ignoring case (flag i)
LiteralAtI(s, i, lit) ==
  /\ i + Len(lit) - 1 <= Len(s)
  /\ \A k \in 1..Len(lit) : LowerChar(s[i + k - 1]) = LowerChar(lit[k])

\* (a variant that drops the word boundaries: new RegExp(lit, 'gi'))
FillerRegexAtSubstring(s, i, lit) == LiteralAtI(s, i, lit)

\* new RegExp(`\\b${lit}\\b`, 'gi') matches s at position i
FillerRegexAt(s, i, lit) ==
  /\ WordBoundary(s, i)
  /\ LiteralAtI(s, i, lit)
  /\ WordBoundary(s, i + Len(lit))

\* s.match(regex) with flag g: the matches found scanning from position i,
\* each search resuming after the previous match; at is the set of the
\* positions where the regular expression matches
RECURSIVE ScanMatches(_, _, _, _)
ScanMatches(s, lit, at, i) ==
  LET ahead == {p \in at : p >= i}
  IN  IF ahead = {} THEN << >>
      ELSE LET p == CHOOSE q \in ahead : \A r \in ahead : q <= r
           IN  <<SubSeq(s, p, p + Len(lit) - 1)>>
                 \o ScanMatches(s, lit, at, p + Len(lit))
MatchAll(s, lit) ==
  ScanMatches(s, lit, {i \in 1..Len(s) : FillerRegexAt(s, i, lit)}, 1)

\* /\b(alt1|alt2|...)\b/.test(s), case-sensitive
TestWords(s, alts) ==
  \E i \in 1..Len(s) :
    /\ WordBoundary(s, i)
    /\ \E a \in 1..Len(alts) :
         LiteralAt(s, i, alts[a]) /\ WordBoundary(s, i + Len(alts[a]))

\* (a variant without the optional blanks: /\b\d+(unit1|unit2|...)\b/)
TestQuantityNoSpace(s, units) ==
  \E i \in 1..Len(s) :
    /\ WordBoundary(s, i)
    /\ s[i] \in Digits
    /\ LET j == SkipIn(s, i, Digits)
       IN  \E u \in 1..Len(units) :
             LiteralAt(s, j, units[u]) /\ WordBoundary(s, j + Len(units[u]))

\* /\b\d+\s*(unit1|unit2|...)\b/.test(s)
TestQuantity(s, units) ==
  \E i \in 1..Len(s) :
    /\ WordBoundary(s, i)
    /\ s[i] \in Digits
    /\ LET j == SkipIn(s, i, Digits)
           k == SkipIn(s, j, Spaces)
       IN  \E u \in 1..Len(units) :
             LiteralAt(s, k, units[u]) /\ WordBoundary(s, k + Len(units[u]))

\* s.split(/\s+/).filter(w => w.length > 0): the words of s, in order of
\* their first characters
WordStarts(s) ==
  {i \in 1..Len(s) : ~IsSpace(s[i]) /\ (i = 1 \/ IsSpace(s[i - 1]))}
WordAt(s, i) == SubSeq(s, i, SkipNotIn(s, i, Spaces) - 1)

\* s.split(/[.!?]+/).filter(x => x.trim().length > 0).length
Terminators == {".", "!", "?"}
IsTerminator(c) == c \in Terminators
SegmentStarts(s) ==
  {i \in 1..Len(s) : ~IsTerminator(s[i]) /\ (i = 1 \/ IsTerminator(s[i - 1]))}
CountSentences(s) ==
  Cardinality({i \in SegmentStarts(s) :
                 \E m \in i..(SkipNotIn(s, i, Terminators) - 1) : ~IsSpace(s[m])})

(***************************************************************************)
(* JavaScript numbers                                                      *)
(***************************************************************************)
Sign(a) == IF a > 0 THEN 1 ELSE IF a < 0 THEN -1 ELSE 0
Abs(a) == IF a < 0 THEN -a ELSE a

RECURSIVE GCD(_, _)
GCD(a, b) == IF b = 0 THEN a ELSE GCD(b, a % b)

\* the number a / b for integers a, b (b of any sign, also 0), in lowest
\* terms
Frac(a, b) ==
  IF b = 0 THEN [n |-> Sign(a), d |-> 0]
  ELSE LET g == GCD(Abs(a), Abs(b))
       IN  [n |-> Sign(b) * (a \div g), d |-> Abs(b) \div g]
Num(a) == [n |-> a, d |-> 1]
NaN == [n |-> 0, d |-> 0]
Infinity == [n |-> 1, d |-> 0]

IsNaN(x) == x.d = 0 /\ x.n = 0
IsFinite(x) == x.d > 0
\* Number.isInteger
IsInteger(x) == x.d > 0 /\ x.n % x.d = 0

\* x < y, x > y, x <= y, x >= y: false when an operand is NaN
Lt(x, y) ==
  /\ ~IsNaN(x) /\ ~IsNaN(y)
  /\ IF x.d = 0 /\ y.d = 0 THEN x.n < y.n ELSE x.n * y.d < y.n * x.d
Gt(x, y) == Lt(y, x)
Le(x, y) ==
  /\ ~IsNaN(x) /\ ~IsNaN(y)
  /\ IF x.d = 0 /\ y.d = 0 THEN x.n <= y.n ELSE x.n * y.d <= y.n * x.d
Ge(x, y) == Le(y, x)
\* x === y
Eq(x, y) == Le(x, y) /\ Le(y, x)

Neg(x) == [n |-> -x.n, d |-> x.d]
Add(x, y) ==
  IF IsNaN(x) \/ IsNaN(y) THEN NaN
  ELSE IF x.d = 0 /\ y.d = 0 THEN (IF x.n = y.n THEN x ELSE NaN)
  ELSE IF x.d = 0 THEN x
  ELSE IF y.d = 0 THEN y
  ELSE Frac(x.n * y.d + y.n * x.d, x.d * y.d)
Sub(x, y) == Add(x, Neg(y))
Mul(x, y) ==
  IF x.d = 0 \/ y.d = 0 THEN [n |-> Sign(x.n) * Sign(y.n), d |-> 0]
  ELSE Frac(x.n * y.n, x.d * y.d)
Div(x, y) ==
  IF IsNaN(x) \/ IsNaN(y) \/ (x.d = 0 /\ y.d = 0) THEN NaN
  ELSE IF y.d = 0 THEN Num(0)
  ELSE IF x.d = 0 THEN [n |-> x.n * (IF y.n < 0 THEN -1 ELSE 1), d |-> 0]
  ELSE Frac(x.n * y.d, x.d * y.n)

\* Math.min, Math.max, Math.round, Math.floor, Math.abs
MathMin(x, y) == IF IsNaN(x) \/ IsNaN(y) THEN NaN ELSE IF Lt(y, x) THEN y ELSE x
MathMax(x, y) == IF IsNaN(x) \/ IsNaN(y) THEN NaN ELSE IF Gt(y, x) THEN y ELSE x
MathRound(x) == IF x.d = 0 THEN x ELSE Num((2 * x.n + x.d) \div (2 * x.d))
MathFloor(x) == IF x.d = 0 THEN x ELSE Num(x.n \div x.d)
MathAbs(x) == [n |-> Abs(x.n), d |-> x.d]

\* sum of a sequence of integers (Array.prototype.reduce((a, b) => a + b, 0))
RECURSIVE SumSeq(_)
SumSeq(q) == IF q = << >> THEN 0 ELSE q[1] + SumSeq(Tail(q))

(***************************************************************************)
(* Fixed vocabularies and canned transcripts of the program                *)
(***************************************************************************)
\* const FILLER_WORDS of audioProcessing.ts
FILLER_WORDS == <<
  <<"u", "m">>,
  <<"u", "h">>,
  <<"l", "i", "k", "e">>,
  <<"y", "o", "u", " ", "k", "n", "o", "w">>,
  <<"s", "o", "r", "t", " ", "o", "f">>,
  <<"k", "i", "n", "d", " ", "o", "f">>,
  <<"i", " ", "m", "e", "a", "n">>,
  <<"b", "a", "s", "i", "c", "a", "l", "l", "y">>,
  <<"a", "c", "t", "u", "a", "l", "l", "y">>,
  <<"l", "i", "t", "e", "r", "a", "l", "l", "y">>,
  <<"j", "u", "s", "t">>,
  <<"s", "o">>,
  <<"w", "e", "l", "l">>,
  <<"r", "i", "g", "h", "t">>,
  <<"o", "k", "a", "y">>,
  <<"a", "l", "r", "i", "g", "h", "t">>,
  <<"a", "n", "y", "w", "a", "y">>,
  <<"h", "m", "m">>,
  <<"e", "r">>,
  <<"a", "h">>
>>

\* the alternatives of the regular expressions of analyzeResponseContent
ExamplePhrases == <<
  <<"e", "x", "a", "m", "p", "l", "e">>,
  <<"i", "n", "s", "t", "a", "n", "c", "e">>,
  <<"t", "i", "m", "e", " ", "w", "h", "e", "n">>,
  <<"s", "i", "t", "u", "a", "t", "i", "o", "n">>,
  <<"e", "x", "p", "e", "r", "i", "e", "n", "c", "e">>
>>

StructurePhrases == <<
  <<"f", "i", "r", "s", "t">>,
  <<"s", "e", "c", "o", "n", "d">>,
  <<"t", "h", "e", "n">>,
  <<"n", "e", "x", "t">>,
  <<"f", "i", "n", "a", "l", "l", "y">>,
  <<"r", "e", "s", "u", "l", "t">>,
  <<"o", "u", "t", "c", "o", "m", "e">>,
  <<"a", "c", "h", "i", "e", "v", "e", "d">>
>>

ConfidencePhrases == <<
  <<"I", " ", "w", "i", "l", "l">>,
  <<"I", " ", "c", "a", "n">>,
  <<"I", " ", "h", "a", "v", "e">>,
  <<"I", " ", "a", "m", " ", "c", "o", "n", "f", "i", "d", "e", "n", "t">>,
  <<"s", "u", "c", "c", "e", "s", "s", "f", "u", "l", "l", "y">>,
  <<"a", "c", "h", "i", "e", "v", "e", "d">>,
  <<"d", "e", "l", "i", "v", "e", "r", "e", "d">>
>>

HedgingPhrases == <<
  <<"m", "a", "y", "b", "e">>,
  <<"m", "i", "g", "h", "t">>,
  <<"p", "o", "s", "s", "i", "b", "l", "y">>,
  <<"I", " ", "t", "h", "i", "n", "k">>,
  <<"I", " ", "g", "u", "e", "s", "s">>,
  <<"p", "r", "o", "b", "a", "b", "l", "y">>,
  <<"k", "i", "n", "d", " ", "o", "f">>,
  <<"s", "o", "r", "t", " ", "o", "f">>
>>

QuantityUnits == <<
  <<"p", "e", "r", "c", "e", "n", "t">>,
  <<"%">>,
  <<"p", "e", "o", "p", "l", "e">>,
  <<"u", "s", "e", "r", "s">>,
  <<"c", "u", "s", "t", "o", "m", "e", "r", "s">>,
  <<"d", "o", "l", "l", "a", "r", "s">>,
  <<"w", "e", "e", "k", "s">>,
  <<"m", "o", "n", "t", "h", "s">>,
  <<"y", "e", "a", "r", "s">>
>>

\* const sampleResponses of generateMockTranscription: the texts that
\* transcribeAudio returns
sampleResponses == <<
  <<"W", "e", "l", "l", ",", " ", "u", "m", ",", " ", "I", " ", "w", "o", "u", "l", "d", " ", "s", "a", "y", " ", "t", "h", "a", "t", " ", "m", "y", " ", "g", "r", "e", "a", "t", "e", "s", "t", " ", "s", "t", "r", "e", "n", "g", "t", "h", " ", "i", "s", " ", "d", "e", "f", "i", "n", "i", "t", "e", "l", "y", " ", "m", "y", " ", "a", "b", "i", "l", "i", "t", "y", " ", "t", "o", ",", " ", "y", "o", "u", " ", "k", "n", "o", "w", ",", " ", "w", "o", "r", "k", " ", "w", "e", "l", "l", " ", "u", "n", "d", "e", "r", " ", "p", "r", "e", "s", "s", "u", "r", "e", ".", " ", "L", "i", "k", "e", ",", " ", "i", "n", " ", "m", "y", " ", "p", "r", "e", "v", "i", "o", "u", "s", " ", "r", "o", "l", "e", ",", " ", "I", " ", "a", "c", "t", "u", "a", "l", "l", "y", " ", "h", "a", "d", " ", "t", "o", " ", "m", "a", "n", "a", "g", "e", " ", "m", "u", "l", "t", "i", "p", "l", "e", " ", "p", "r", "o", "j", "e", "c", "t", "s", " ", "s", "i", "m", "u", "l", "t", "a", "n", "e", "o", "u", "s", "l", "y", " ", "a", "n", "d", " ", "I", " ", "w", "a", "s", " ", "a", "b", "l", "e", " ", "t", "o", " ", "d", "e", "l", "i", "v", "e", "r", " ", "a", "l", "l", " ", "o", "f", " ", "t", "h", "e", "m", " ", "o", "n", " ", "t", "i", "m", "e", ".", " ", "I", " ", "t", "h", "i", "n", "k", " ", "w", "h", "a", "t", " ", "r", "e", "a", "l", "l", "y", " ", "s", "e", "t", "s", " ", "m", "e", " ", "a", "p", "a", "r", "t", " ", "i", "s", " ", "m", "y", " ", "a", "t", "t", "e", "n", "t", "i", "o", "n", " ", "t", "o", " ", "d", "e", "t", "a", "i", "l", " ", "a", "n", "d", " ", "m", "y", " ", "s", "t", "r", "o", "n", "g", " ", "c", "o", "m", "m", "u", "n", "i", "c", "a", "t", "i", "o", "n", " ", "s", "k", "i", "l", "l", "s", ".">>,
  <<"S", "o", ",", " ", "u", "h", ",", " ", "t", "o", " ", "a", "n", "s", "w", "e", "r", " ", "t", "h", "a", "t", " ", "q", "u", "e", "s", "t", "i", "o", "n", ",", " ", "I", " ", "b", "e", "l", "i", "e", "v", "e", " ", "t", "h", "a", "t", ",", " ", "u", "m", ",", " ", "o", "n", "e", " ", "o", "f", " ", "m", "y", " ", "b", "i", "g", "g", "e", "s", "t", " ", "s", "t", "r", "e", "n", "g", "t", "h", "s", " ", "i", "s", " ", "p", "r", "o", "b", "l", "e", "m", " ", "s", "o", "l", "v", "i", "n", "g", ".", " ", "Y", "o", "u", " ", "k", "n", "o", "w", ",", " ", "I", " ", "r", "e", "a", "l", "l", "y", " ", "e", "n", "j", "o", "y", " ", "t", "a", "c", "k", "l", "i", "n", "g", " ", "c", "o", "m", "p", "l", "e", "x", " ", "c", "h", "a", "l", "l", "e", "n", "g", "e", "s", " ", "a", "n", "d", " ", "f", "i", "n", "d", "i", "n", "g", " ", "c", "r", "e", "a", "t", "i", "v", "e", " ", "s", "o", "l", "u", "t", "i", "o", "n", "s", ".", " ", "F", "o", "r", " ", "e", "x", "a", "m", "p", "l", "e", ",", " ", "a", "t", " ", "m", "y", " ", "l", "a", "s", "t", " ", "c", "o", "m", "p", "a", "n", "y", ",", " ", "w", "e", " ", "h", "a", "d", " ", "t", "h", "i", "s", " ", "m", "a", "j", "o", "r", " ", "i", "s", "s", "u", "e", " ", "w", "i", "t", "h", " ", "o", "u", "r", " ", "s", "y", "s", "t", "e", "m", " ", "p", "e", "r", "f", "o", "r", "m", "a", "n", "c", "e", ",", " ", "a", "n", "d", " ", "I", " ", "w", "a", "s", " ", "a", "b", "l", "e", " ", "t", "o", " ", "i", "d", "e", "n", "t", "i", "f", "y", " ", "t", "h", "e", " ", "r", "o", "o", "t", " ", "c", "a", "u", "s", "e", " ", "a", "n", "d", " ", "i", "m", "p", "l", "e", "m", "e", "n", "t", " ", "a", " ", "f", "i", "x", " ", "t", "h", "a", "t", " ", "i", "m", "p", "r", "o", "v", "e", "d", " ", "e", "f", "f", "i", "c", "i", "e", "n", "c", "y", " ", "b", "y", " ", "l", "i", "k", "e", " ", "t", "h", "i", "r", "t", "y", " ", "p", "e", "r", "c", "e", "n", "t", ".">>,
  <<"I", " ", "t", "h", "i", "n", "k", ",", " ", "u", "m", ",", " ", "m", "y", " ", "g", "r", "e", "a", "t", "e", "s", "t", " ", "s", "t", "r", "e", "n", "g", "t", "h", " ", "w", "o", "u", "l", "d", " ", "b", "e", " ", "m", "y", " ", "l", "e", "a", "d", "e", "r", "s", "h", "i", "p", " ", "a", "b", "i", "l", "i", "t", "i", "e", "s", ".", " ", "L", "i", "k", "e", ",", " ", "I", "'", "v", "e", " ", "a", "l", "w", "a", "y", "s", " ", "b", "e", "e", "n", " ", "s", "o", "m", "e", "o", "n", "e", " ", "w", "h", "o", ",", " ", "y", "o", "u", " ", "k", "n", "o", "w", ",", " ", "n", "a", "t", "u", "r", "a", "l", "l", "y", " ", "t", "a", "k", "e", "s", " ", "i", "n", "i", "t", "i", "a", "t", "i", "v", "e", " ", "a", "n", "d", " ", "h", "e", "l", "p", "s", " ", "g", "u", "i", "d", "e", " ", "t", "e", "a", "m", "s", " ", "t", "o", "w", "a", "r", "d", " ", "s", "u", "c", "c", "e", "s", "s", ".", " ", "B", "a", "s", "i", "c", "a", "l", "l", "y", ",", " ", "I", "'", "m", " ", "r", "e", "a", "l", "l", "y", " ", "g", "o", "o", "d", " ", "a", "t", " ", "m", "o", "t", "i", "v", "a", "t", "i", "n", "g", " ", "p", "e", "o", "p", "l", "e", " ", "a", "n", "d", ",", " ", "u", "h", ",", " ", "c", "r", "e", "a", "t", "i", "n", "g", " ", "a", " ", "p", "o", "s", "i", "t", "i", "v", "e", " ", "w", "o", "r", "k", " ", "e", "n", "v", "i", "r", "o", "n", "m", "e", "n", "t", ".", " ", "I", "n", " ", "m", "y", " ", "c", "u", "r", "r", "e", "n", "t", " ", "r", "o", "l", "e", ",", " ", "I", " ", "a", "c", "t", "u", "a", "l", "l", "y", " ", "l", "e", "a", "d", " ", "a", " ", "t", "e", "a", "m", " ", "o", "f", " ", "f", "i", "v", "e", " ", "d", "e", "v", "e", "l", "o", "p", "e", "r", "s", " ", "a", "n", "d", " ", "w", "e", "'", "v", "e", " ", "c", "o", "n", "s", "i", "s", "t", "e", "n", "t", "l", "y", " ", "e", "x", "c", "e", "e", "d", "e", "d", " ", "o", "u", "r", " ", "q", "u", "a", "r", "t", "e", "r", "l", "y", " ", "g", "o", "a", "l", "s", ".">>,
  <<"W", "e", "l", "l", ",", " ", "I", " ", "w", "o", "u", "l", "d", " ", "d", "e", "f", "i", "n", "i", "t", "e", "l", "y", " ", "s", "a", "y", " ", "a", "d", "a", "p", "t", "a", "b", "i", "l", "i", "t", "y", " ", "i", "s", " ", "o", "n", "e", " ", "o", "f", " ", "m", "y", " ", "c", "o", "r", "e", " ", "s", "t", "r", "e", "n", "g", "t", "h", "s", ".", " ", "U", "m", ",", " ", "I", "'", "v", "e", " ", "w", "o", "r", "k", "e", "d", " ", "i", "n", " ", "v", "a", "r", "i", "o", "u", "s", " ", "i", "n", "d", "u", "s", "t", "r", "i", "e", "s", " ", "a", "n", "d", ",", " ", "y", "o", "u", " ", "k", "n", "o", "w", ",", " ", "I", "'", "m", " ", "a", "b", "l", "e", " ", "t", "o", " ", "q", "u", "i", "c", "k", "l", "y", " ", "l", "e", "a", "r", "n", " ", "n", "e", "w", " ", "t", "e", "c", "h", "n", "o", "l", "o", "g", "i", "e", "s", " ", "a", "n", "d", " ", "p", "r", "o", "c", "e", "s", "s", "e", "s", ".", " ", "L", "i", "k", "e", ",", " ", "w", "h", "e", "n", " ", "I", " ", "j", "o", "i", "n", "e", "d", " ", "m", "y", " ", "c", "u", "r", "r", "e", "n", "t", " ", "c", "o", "m", "p", "a", "n", "y", ",", " ", "I", " ", "h", "a", "d", " ", "t", "o", " ", "l", "e", "a", "r", "n", " ", "t", "h", "e", "i", "r", " ", "e", "n", "t", "i", "r", "e", " ", "t", "e", "c", "h", " ", "s", "t", "a", "c", "k", " ", "i", "n", " ", "j", "u", "s", "t", " ", "t", "w", "o", " ", "w", "e", "e", "k", "s", ",", " ", "a", "n", "d", " ", "I", " ", "w", "a", "s", " ", "c", "o", "n", "t", "r", "i", "b", "u", "t", "i", "n", "g", " ", "t", "o", " ", "p", "r", "o", "d", "u", "c", "t", "i", "o", "n", " ", "c", "o", "d", "e", " ", "b", "y", " ", "t", "h", "e", " ", "e", "n", "d", " ", "o", "f", " ", "t", "h", "e", " ", "f", "i", "r", "s", "t", " ", "m", "o", "n", "t", "h", ".">>
>>

(***************************************************************************)
(* audioProcessing.ts: metrics and the three score calculators             *)
(*                                                                         *)
(* A TranscriptionResult is [text, words, duration]; a word record is      *)
(* [start, end, confidence] (its word string is read by no function).      *)
(***************************************************************************)
RECURSIVE FillersFrom(_, _)
\* FILLER_WORDS.forEach(filler => fillerWordsFound.push(...matches)), from
\* the k-th filler on
FillersFrom(text, k) ==
  IF k > Len(FILLER_WORDS) THEN << >>
  ELSE MatchAll(text, FILLER_WORDS[k]) \o FillersFrom(text, k + 1)

\* the pauses between consecutive words that are longer than 100 ms
PausesOf(words) ==
  LET gap == [i \in 1..(Len(words) - 1) |-> words[i + 1].start - words[i].end]
      IsPause(p) == p > 1
  IN  SelectSeq(gap, IsPause)

analyzeSpeechMetrics(transcription) ==
  LET text == toLowerCase(transcription.text)
      starts == WordStarts(text)
      wordCount == Cardinality(starts)
      uniqueWords == {WordAt(text, i) : i \in {j \in starts : Len(WordAt(text, j)) > 2}}
      durationMinutes == Frac(transcription.duration, 60)
      wordsPerMinute == MathRound(Div(Num(wordCount), durationMinutes))
      fillerWordsFound == FillersFrom(text, 1)
      pauseDurations == PausesOf(transcription.words)
      averagePauseDuration ==
        IF Len(pauseDurations) > 0
        THEN Frac(SumSeq(pauseDurations), 10 * Len(pauseDurations))
        ELSE Num(0)
      sentenceCount == CountSentences(text)
      vocabularyRichness == Frac(Cardinality(uniqueWords), wordCount)
  IN  [wordsPerMinute |-> wordsPerMinute,
       fillerWords |-> fillerWordsFound,
       fillerWordCount |-> Len(fillerWordsFound),
       pauseDurations |-> pauseDurations,
       averagePauseDuration |-> averagePauseDuration,
       sentenceCount |-> sentenceCount,
       wordCount |-> wordCount,
       uniqueWordCount |-> Cardinality(uniqueWords),
       vocabularyRichness |-> vocabularyRichness]

\* (a variant that divides by one more than the number of words)
AvgConfidenceOffByOne(words) ==
  Frac(SumSeq([i \in 1..Len(words) |-> words[i].confidence]), 100 * (Len(words) + 1))

\* transcription.words.reduce((sum, w) => sum + w.confidence, 0) / length
AvgConfidence(words) ==
  Frac(SumSeq([i \in 1..Len(words) |-> words[i].confidence]), 100 * Len(words))

\* (a variant with the operands of the subtraction exchanged)
FillerPenaltyExchanged(fillerRatio) ==
  IF Gt(fillerRatio, Frac(33, 1000))
  THEN MathMin(Num(30), Mul(Sub(Frac(33, 1000), fillerRatio), Num(500)))
  ELSE Num(0)

\* what calculateClarityScore subtracts for filler words (more than 1 per
\* 30 words)
FillerPenalty(fillerRatio) ==
  IF Gt(fillerRatio, Frac(33, 1000))
  THEN MathMin(Num(30), Mul(Sub(fillerRatio, Frac(33, 1000)), Num(500)))
  ELSE Num(0)

calculateClarityScore(metrics, transcription) ==
  LET fillerRatio == Frac(metrics.fillerWordCount, metrics.wordCount)
      afterFillers == Sub(Num(100), FillerPenalty(fillerRatio))
      avgConfidence == AvgConfidence(transcription.words)
      afterConfidence ==
        IF Lt(avgConfidence, Frac(9, 10))
        THEN Sub(afterFillers, Mul(Sub(Frac(9, 10), avgConfidence), Num(100)))
        ELSE afterFillers
      IsLong(p) == p > 20
      longPauses == Len(SelectSeq(metrics.pauseDurations, IsLong))
      score == Sub(afterConfidence, MathMin(Num(15), Num(longPauses * 5)))
  IN  MathMax(Num(0), MathRound(score))

\* (a variant that takes 0 words per sentence when there is no sentence)
calculateStructureScoreGuarded(metrics) ==
  LET avgWordsPerSentence ==
        IF metrics.sentenceCount = 0 THEN Num(0)
        ELSE Frac(metrics.wordCount, metrics.sentenceCount)
      length ==
        IF Lt(avgWordsPerSentence, Num(10)) THEN -15
        ELSE IF Gt(avgWordsPerSentence, Num(30)) THEN -20
        ELSE 0
      vocabulary ==
        IF Lt(metrics.vocabularyRichness, Frac(4, 10)) THEN -15
        ELSE IF Gt(metrics.vocabularyRichness, Frac(7, 10)) THEN 10
        ELSE 0
      sentences == IF metrics.sentenceCount < 3 THEN -20 ELSE 0
      score == Num(100 + length + vocabulary + sentences)
  IN  MathMax(Num(0), MathRound(score))

calculateStructureScore(metrics) ==
  LET avgWordsPerSentence == Frac(metrics.wordCount, metrics.sentenceCount)
      length ==
        IF Lt(avgWordsPerSentence, Num(10)) THEN -15
        ELSE IF Gt(avgWordsPerSentence, Num(30)) THEN -20
        ELSE 0
      vocabulary ==
        IF Lt(metrics.vocabularyRichness, Frac(4, 10)) THEN -15
        ELSE IF Gt(metrics.vocabularyRichness, Frac(7, 10)) THEN 10
        ELSE 0
      sentences == IF metrics.sentenceCount < 3 THEN -20 ELSE 0
      score == Num(100 + length + vocabulary + sentences)
  IN  MathMax(Num(0), MathRound(score))

\* (a variant whose "slightly fast" band starts at 180 words per minute)
calculatePaceScoreInclusive(metrics) ==
  LET wpm == metrics.wordsPerMinute
      speed ==
        IF Lt(wpm, Num(100)) THEN -25
        ELSE IF Lt(wpm, Num(120)) THEN -10
        ELSE IF Gt(wpm, Num(200)) THEN -30
        ELSE IF Ge(wpm, Num(180)) THEN -15
        ELSE 0
      pauses ==
        IF Gt(metrics.averagePauseDuration, Frac(15, 10)) THEN -15
        ELSE IF Lt(metrics.averagePauseDuration, Frac(2, 10)) THEN -10
        ELSE 0
      score == Num(100 + speed + pauses)
  IN  MathMax(Num(0), MathRound(score))

\* (a variant that scores the deviation from 150 words per minute)
calculatePaceScoreByDeviation(metrics) ==
  LET deviation == MathAbs(Sub(metrics.wordsPerMinute, Num(150)))
      score == Sub(Num(100), MathMin(Num(30), Div(deviation, Num(2))))
  IN  MathMax(Num(0), MathRound(score))

calculatePaceScore(metrics) ==
  LET wpm == metrics.wordsPerMinute
      speed ==
        IF Lt(wpm, Num(100)) THEN -25
        ELSE IF Lt(wpm, Num(120)) THEN -10
        ELSE IF Gt(wpm, Num(200)) THEN -30
        ELSE IF Gt(wpm, Num(180)) THEN -15
        ELSE 0
      pauses ==
        IF Gt(metrics.averagePauseDuration, Frac(15, 10)) THEN -15
        ELSE IF Lt(metrics.averagePauseDuration, Frac(2, 10)) THEN -10
        ELSE 0
      score == Num(100 + speed + pauses)
  IN  MathMax(Num(0), MathRound(score))

(***************************************************************************)
(* aiAnalysis.ts: content analysis and the feedback record                 *)
(***************************************************************************)
\* the feedback text, as the sequence of its parts: each part is the
\* template chosen and the numbers printed into it
generateFeedbackText(question, transcription, metrics) ==
  LET pace ==
        IF Lt(metrics.wordsPerMinute, Num(120))
        THEN <<[part |-> "pace slower than ideal", values |-> <<metrics.wordsPerMinute>>]>>
        ELSE IF Gt(metrics.wordsPerMinute, Num(180))
        THEN <<[part |-> "pace quite fast", values |-> <<metrics.wordsPerMinute>>]>>
        ELSE <<[part |-> "pace well-balanced", values |-> <<metrics.wordsPerMinute>>]>>
      fillers ==
        IF metrics.fillerWordCount > 5
        THEN <<[part |-> "filler words to reduce", values |-> <<Num(metrics.fillerWordCount)>>]>>
        ELSE IF metrics.fillerWordCount > 0
        THEN <<[part |-> "filler words quite good", values |-> <<Num(metrics.fillerWordCount)>>]>>
        ELSE <<[part |-> "no filler words", values |-> << >>]>>
      avgWordsPerSentence == MathRound(Frac(metrics.wordCount, metrics.sentenceCount))
      structure ==
        IF Gt(avgWordsPerSentence, Num(25))
        THEN <<[part |-> "sentences quite long", values |-> <<avgWordsPerSentence>>]>>
        ELSE IF Lt(avgWordsPerSentence, Num(12))
        THEN <<[part |-> "sentences quite short", values |-> <<avgWordsPerSentence>>]>>
        ELSE << >>
      vocabulary ==
        IF Gt(metrics.vocabularyRichness, Frac(6, 10))
        THEN <<[part |-> "strong vocabulary diversity", values |-> <<Num(metrics.uniqueWordCount)>>]>>
        ELSE IF Lt(metrics.vocabularyRichness, Frac(4, 10))
        THEN <<[part |-> "expand vocabulary", values |-> << >>]>>
        ELSE << >>
  IN  <<[part |-> "opening", values |-> << >>]>> \o pace \o fillers \o structure
        \o vocabulary \o <<[part |-> "closing advice", values |-> << >>]>>

\* (a variant that lost the else before the improvement for examples)
analyzeResponseContentNoElse(question, transcription, metrics) ==
  LET text == toLowerCase(transcription.text)
      isAppropriateLength == metrics.wordCount >= 50 /\ metrics.wordCount <= 300
      hasExamples == TestWords(text, ExamplePhrases)
      hasStructure == TestWords(text, StructurePhrases)
      hasConfidence == TestWords(text, ConfidencePhrases)
      hasHedging == TestWords(text, HedgingPhrases)
      hasNumbers == TestQuantity(text, QuantityUnits)
      poorVocabulary == Lt(metrics.vocabularyRichness, Frac(4, 10))
      strengths ==
        (IF isAppropriateLength THEN <<"Provided a well-balanced response length">> ELSE << >>)
        \o (IF hasExamples THEN <<"Included concrete examples to support your points">> ELSE << >>)
        \o (IF hasStructure THEN <<"Used a structured approach to organize your response">> ELSE << >>)
        \o (IF hasConfidence /\ ~hasHedging THEN <<"Demonstrated confidence in your abilities">> ELSE << >>)
        \o (IF hasNumbers THEN <<"Provided quantifiable results and metrics">> ELSE << >>)
      improvements ==
        (IF isAppropriateLength THEN << >>
         ELSE IF metrics.wordCount < 50
         THEN <<"Expand your answers with more details and examples">>
         ELSE <<"Try to be more concise and focus on key points">>)
        \o <<"Add specific examples from your experience">>
        \o (IF hasStructure THEN << >>
            ELSE <<"Use frameworks like STAR (Situation, Task, Action, Result) for better structure">>)
        \o (IF hasConfidence /\ ~hasHedging THEN << >>
            ELSE IF hasHedging
            THEN <<"Use more confident language and reduce hedging words">>
            ELSE << >>)
        \o (IF hasNumbers THEN << >>
            ELSE <<"Include specific numbers and measurable outcomes when possible">>)
        \o (IF poorVocabulary
            THEN <<"Expand your vocabulary to avoid repetitive language">>
            ELSE << >>)
      base ==
        70 + (IF isAppropriateLength THEN 10 ELSE 0)
           + (IF hasExamples THEN 10 ELSE 0)
           + (IF hasStructure THEN 10 ELSE 0)
           + (IF hasConfidence /\ ~hasHedging THEN 5 ELSE 0)
           + (IF hasNumbers THEN 5 ELSE 0)
           - (IF poorVocabulary THEN 10 ELSE 0)
  IN  [contentScore |-> MathMin(Num(100), MathMax(Num(0), Num(base))),
       strengths |-> strengths,
       improvements |-> improvements,
       feedbackText |-> generateFeedbackText(question, transcription, metrics)]

analyzeResponseContent(question, transcription, metrics) ==
  LET text == toLowerCase(transcription.text)
      isAppropriateLength == metrics.wordCount >= 50 /\ metrics.wordCount <= 300
      hasExamples == TestWords(text, ExamplePhrases)
      hasStructure == TestWords(text, StructurePhrases)
      hasConfidence == TestWords(text, ConfidencePhrases)
      hasHedging == TestWords(text, HedgingPhrases)
      hasNumbers == TestQuantity(text, QuantityUnits)
      poorVocabulary == Lt(metrics.vocabularyRichness, Frac(4, 10))
      strengths ==
        (IF isAppropriateLength THEN <<"Provided a well-balanced response length">> ELSE << >>)
        \o (IF hasExamples THEN <<"Included concrete examples to support your points">> ELSE << >>)
        \o (IF hasStructure THEN <<"Used a structured approach to organize your response">> ELSE << >>)
        \o (IF hasConfidence /\ ~hasHedging THEN <<"Demonstrated confidence in your abilities">> ELSE << >>)
        \o (IF hasNumbers THEN <<"Provided quantifiable results and metrics">> ELSE << >>)
      improvements ==
        (IF isAppropriateLength THEN << >>
         ELSE IF metrics.wordCount < 50
         THEN <<"Expand your answers with more details and examples">>
         ELSE <<"Try to be more concise and focus on key points">>)
        \o (IF hasExamples THEN << >> ELSE <<"Add specific examples from your experience">>)
        \o (IF hasStructure THEN << >>
            ELSE <<"Use frameworks like STAR (Situation, Task, Action, Result) for better structure">>)
        \o (IF hasConfidence /\ ~hasHedging THEN << >>
            ELSE IF hasHedging
            THEN <<"Use more confident language and reduce hedging words">>
            ELSE << >>)
        \o (IF hasNumbers THEN << >>
            ELSE <<"Include specific numbers and measurable outcomes when possible">>)
        \o (IF poorVocabulary
            THEN <<"Expand your vocabulary to avoid repetitive language">>
            ELSE << >>)
      base ==
        70 + (IF isAppropriateLength THEN 10 ELSE 0)
           + (IF hasExamples THEN 10 ELSE 0)
           + (IF hasStructure THEN 10 ELSE 0)
           + (IF hasConfidence /\ ~hasHedging THEN 5 ELSE 0)
           + (IF hasNumbers THEN 5 ELSE 0)
           - (IF poorVocabulary THEN 10 ELSE 0)
  IN  [contentScore |-> MathMin(Num(100), MathMax(Num(0), Num(base))),
       strengths |-> strengths,
       improvements |-> improvements,
       feedbackText |-> generateFeedbackText(question, transcription, metrics)]

generateDetailedFeedback(metrics) ==
  [additionalStrengths |->
     (IF Ge(metrics.wordsPerMinute, Num(130)) /\ Le(metrics.wordsPerMinute, Num(170))
      THEN <<"Maintained an ideal speaking pace throughout your response">> ELSE << >>)
     \o (IF metrics.fillerWordCount <= 3
         THEN <<"Spoke clearly with minimal filler words">> ELSE << >>)
     \o (IF Gt(metrics.vocabularyRichness, Frac(6, 10))
         THEN <<"Demonstrated strong vocabulary and varied word choice">> ELSE << >>)
     \o (IF Gt(metrics.averagePauseDuration, Frac(3, 10))
            /\ Lt(metrics.averagePauseDuration, Num(1))
         THEN <<"Used pauses effectively for emphasis and clarity">> ELSE << >>),
   additionalImprovements |->
     (IF metrics.fillerWordCount > 8
      THEN <<"Significantly reduce filler words like \"um,\" \"uh,\" and \"like\"">> ELSE << >>)
     \o (IF Gt(metrics.averagePauseDuration, Frac(15, 10))
         THEN <<"Reduce long pauses to maintain engagement and flow">> ELSE << >>)
     \o (IF Lt(metrics.wordsPerMinute, Num(110))
         THEN <<"Increase your speaking pace to sound more confident">> ELSE << >>)
     \o (IF metrics.sentenceCount < 3
         THEN <<"Develop your answers with multiple well-structured sentences">> ELSE << >>)]

\* (a variant that keeps one entry too many)
SliceInclusive(q, n) == SubSeq(q, 1, IF Len(q) < n + 1 THEN Len(q) ELSE n + 1)

\* Array.prototype.slice(0, n)
Slice(q, n) == SubSeq(q, 1, IF Len(q) < n THEN Len(q) ELSE n)

\* (a variant: the candidates of the detailed feedback come first)
TopListsMetricFirst(contentAnalysis, detailedFeedback) ==
  LET allStrengths ==
        detailedFeedback.additionalStrengths \o contentAnalysis.strengths
      allImprovements ==
        detailedFeedback.additionalImprovements \o contentAnalysis.improvements
  IN  [topStrengths |->
         Slice(IF allStrengths = << >>
               THEN <<"Completed the interview question",
                      "Provided a response within a reasonable timeframe">>
               ELSE allStrengths, 4),
       topImprovements |->
         Slice(IF allImprovements = << >>
               THEN <<"Continue practicing to refine your delivery",
                      "Consider recording yourself to identify areas for improvement">>
               ELSE allImprovements, 4)]

\* the strengths and improvements of the feedback record: the candidates of
\* the content analysis, then those of the detailed feedback; two fixed
\* entries when there is none; the first four
TopLists(contentAnalysis, detailedFeedback) ==
  LET combinedStrengths ==
        contentAnalysis.strengths \o detailedFeedback.additionalStrengths
      combinedImprovements ==
        contentAnalysis.improvements \o detailedFeedback.additionalImprovements
      allStrengths ==
        IF Len(combinedStrengths) = 0
        THEN <<"Completed the interview question",
               "Provided a response within a reasonable timeframe">>
        ELSE combinedStrengths
      allImprovements ==
        IF Len(combinedImprovements) = 0
        THEN <<"Continue practicing to refine your delivery",
               "Consider recording yourself to identify areas for improvement">>
        ELSE combinedImprovements
  IN  [topStrengths |-> Slice(allStrengths, 4),
       topImprovements |-> Slice(allImprovements, 4)]

\* (a variant: the plain average of the three delivery scores)
OverallScoreUnweighted(clarityScore, structureScore, paceScore, contentScore) ==
  MathRound(Div(Add(Add(clarityScore, structureScore), paceScore), Num(3)))

\* the weighted average of generateAIFeedback
OverallScore(clarityScore, structureScore, paceScore, contentScore) ==
  MathRound(Add(Add(Mul(clarityScore, Frac(3, 10)),
                    Mul(structureScore, Frac(25, 100))),
                Add(Mul(paceScore, Frac(25, 100)),
                    Mul(contentScore, Frac(2, 10)))))

\* (a variant that fills a list of fewer than three strengths with an entry
\* of a pool picked by the random source)
generateAIFeedbackRandomPadding(input, sessionId, uuid, now) ==
  LET contentAnalysis ==
        analyzeResponseContent(input.question, input.transcription, input.metrics)
      lists == TopLists(contentAnalysis, generateDetailedFeedback(input.metrics))
      pool == [u \in {"uuid-a", "uuid-b"} |->
                 IF u = "uuid-a" THEN "Maintained professional tone throughout"
                 ELSE "Showed confidence in your delivery"]
  IN  [id |-> uuid,
       session_id |-> sessionId,
       overall_score |-> OverallScore(input.clarityScore, input.structureScore,
                                      input.paceScore, contentAnalysis.contentScore),
       clarity_score |-> input.clarityScore,
       structure_score |-> input.structureScore,
       pace_score |-> input.paceScore,
       filler_word_count |-> input.metrics.fillerWordCount,
       feedback_text |-> contentAnalysis.feedbackText,
       strengths |-> IF Len(lists.topStrengths) < 3
                     THEN Append(lists.topStrengths, pool[uuid])
                     ELSE lists.topStrengths,
       improvements |-> lists.topImprovements,
       created_at |-> now]

\* input is [question, transcription, metrics, clarityScore, structureScore,
\* paceScore]; uuid and now are the values that crypto.randomUUID() and
\* new Date() return during the call
generateAIFeedback(input, sessionId, uuid, now) ==
  LET contentAnalysis ==
        analyzeResponseContent(input.question, input.transcription, input.metrics)
      lists == TopLists(contentAnalysis, generateDetailedFeedback(input.metrics))
  IN  [id |-> uuid,
       session_id |-> sessionId,
       overall_score |-> OverallScore(input.clarityScore, input.structureScore,
                                      input.paceScore, contentAnalysis.contentScore),
       clarity_score |-> input.clarityScore,
       structure_score |-> input.structureScore,
       pace_score |-> input.paceScore,
       filler_word_count |-> input.metrics.fillerWordCount,
       feedback_text |-> contentAnalysis.feedbackText,
       strengths |-> lists.topStrengths,
       improvements |-> lists.topImprovements,
       created_at |-> now]

(***************************************************************************)
(* Inputs of the batch engine                                              *)
(***************************************************************************)
\* the transcript of Scenario A
ScenarioA == <<"W", "e", "l", "l", ",", " ", "u", "m", ",", " ", "I", " ", "w", "o", "u", "l", "d", " ", "s", "a", "y", " ", "m", "y", " ", "s", "t", "r", "e", "n", "g", "t", "h", " ", "i", "s", " ", "c", "o", "m", "m", "u", "n", "i", "c", "a", "t", "i", "o", "n", ".">>

\* a short answer with an example, structure markers and a quantity
ScenarioD == <<"F", "o", "r", " ", "e", "x", "a", "m", "p", "l", "e", ",", " ", "f", "i", "r", "s", "t", " ", "w", "e", " ", "p", "l", "a", "n", "n", "e", "d", ",", " ", "t", "h", "e", "n", " ", "w", "e", " ", "b", "u", "i", "l", "t", ",", " ", "f", "i", "n", "a", "l", "l", "y", " ", "w", "e", " ", "g", "r", "e", "w", " ", "8", "5", " ", "p", "e", "r", "c", "e", "n", "t", ".">>

\* a complete answer: examples, structure markers, confident language, a
\* quantified result, four sentences, 56 words
CompleteAnswer == <<"F", "i", "r", "s", "t", ",", " ", "I", " ", "s", "u", "c", "c", "e", "s", "s", "f", "u", "l", "l", "y", " ", "d", "e", "l", "i", "v", "e", "r", "e", "d", " ", "a", " ", "b", "i", "l", "l", "i", "n", "g", " ", "m", "i", "g", "r", "a", "t", "i", "o", "n", " ", "f", "o", "r", " ", "8", "5", " ", "p", "e", "r", "c", "e", "n", "t", " ", "o", "f", " ", "o", "u", "r", " ", "c", "u", "s", "t", "o", "m", "e", "r", "s", " ", "i", "n", " ", "t", "w", "e", "l", "v", "e", " ", "w", "e", "e", "k", "s", ".", " ", "F", "o", "r", " ", "e", "x", "a", "m", "p", "l", "e", ",", " ", "m", "y", " ", "t", "e", "a", "m", " ", "r", "e", "b", "u", "i", "l", "t", " ", "t", "h", "e", " ", "i", "n", "v", "o", "i", "c", "e", " ", "e", "n", "g", "i", "n", "e", ",", " ", "t", "h", "e", "n", " ", "m", "o", "v", "e", "d", " ", "e", "v", "e", "r", "y", " ", "a", "c", "c", "o", "u", "n", "t", " ", "w", "i", "t", "h", "o", "u", "t", " ", "d", "o", "w", "n", "t", "i", "m", "e", ".", " ", "N", "e", "x", "t", ",", " ", "w", "e", " ", "m", "e", "a", "s", "u", "r", "e", "d", " ", "t", "h", "e", " ", "o", "u", "t", "c", "o", "m", "e", " ", "c", "a", "r", "e", "f", "u", "l", "l", "y", " ", "a", "n", "d", " ", "r", "e", "d", "u", "c", "e", "d", " ", "s", "u", "p", "p", "o", "r", "t", " ", "t", "i", "c", "k", "e", "t", "s", " ", "a", "c", "r", "o", "s", "s", " ", "t", "h", "r", "e", "e", " ", "r", "e", "g", "i", "o", "n", "s", ".", " ", "F", "i", "n", "a", "l", "l", "y", ",", " ", "t", "h", "e", " ", "r", "e", "s", "u", "l", "t", " ", "c", "o", "n", "v", "i", "n", "c", "e", "d", " ", "l", "e", "a", "d", "e", "r", "s", "h", "i", "p", " ", "t", "o", " ", "f", "u", "n", "d", " ", "a", " ", "s", "e", "c", "o", "n", "d", " ", "p", "l", "a", "t", "f", "o", "r", "m", " ", "p", "r", "o", "j", "e", "c", "t", " ", "t", "h", "i", "s", " ", "y", "e", "a", "r", ".">>

\* the longest word list drawn, and the most pieces a short text is made of
MaxWords == 2
MaxPieces == 3

\* word records: 0.5 s long words starting at 0 s, 1 s and 4 s
WordRecords ==
  {[start |-> 0, end |-> 5, confidence |-> 100],
   [start |-> 10, end |-> 15, confidence |-> 90],
   [start |-> 40, end |-> 45, confidence |-> 0]}

RECURSIVE SeqsUpTo(_, _)
\* the sequences over S of length at most n
SeqsUpTo(S, n) ==
  IF n = 0 THEN {<< >>}
  ELSE LET shorter == SeqsUpTo(S, n - 1)
       IN  shorter \cup {Append(q, x) : q \in shorter, x \in S}

WordLists == SeqsUpTo(WordRecords, MaxWords)

\* two confidently recognised words half a second apart
PacedWords ==
  <<[start |-> 0, end |-> 5, confidence |-> 100],
    [start |-> 10, end |-> 15, confidence |-> 90]>>

\* durations in seconds: none, negative, and speaking rates from rushed to slow
Durations == {-5, 0, 3, 5, 25}

Pieces == {<<"u", "m">>, <<"U", "M">>, <<"s", "o">>, <<"s">>, <<" ">>, <<",">>}

RECURSIVE Concat(_)
Concat(q) == IF q = << >> THEN << >> ELSE q[1] \o Concat(Tail(q))

\* short texts: every concatenation of at most MaxPieces pieces, and the
\* phrase fillers alone, inside longer words and with doubled blanks
ShortTexts ==
  {Concat(q) : q \in SeqsUpTo(Pieces, MaxPieces)}
  \cup {<<"y", "o", "u", " ", "k", "n", "o", "w">>, <<"y", "o", "u", " ", " ", "k", "n", "o", "w">>, <<"y", "o", "u", " ", "k", "n", "o", "w", "s">>, <<"s", "o", "r", "t", " ", "o", "f">>, <<"s", "o", "r", "t", "s", " ", "o", "f">>, <<"I", " ", "m", "e", "a", "n", ",", " ", "k", "i", "n", "d", " ", "o", "f">>}

\* the canned transcripts of the transcriber
SampleTexts == {sampleResponses[k] : k \in 1..Len(sampleResponses)}

\* the long transcripts: the canned ones and the complete answer
LongTexts == SampleTexts \cup {CompleteAnswer}

\* the scenario transcripts, the empty transcript and one of fillers only
ScenarioTexts == {ScenarioA, ScenarioD, << >>, <<"u", "m", " ", "u", "m", " ", "u", "m", " ", "u", "m">>}

Question == "What are your greatest strengths?"

\* the transcription results analysed: long transcripts with at most one
\* word record or two paced ones, at no duration and at a conversational pace; scenario
\* transcripts with every word list and duration; short texts
Transcriptions ==
  {[text |-> t, words |-> w, duration |-> d] :
     t \in LongTexts, w \in {q \in WordLists : Len(q) <= 1} \cup {PacedWords},
     d \in {0, 25}}
  \cup {[text |-> t, words |-> w, duration |-> d] :
          t \in ScenarioTexts, w \in WordLists, d \in Durations}
  \cup {[text |-> t, words |-> << >>, duration |-> 10] : t \in ShortTexts}
(***************************************************************************)
(* speechAnalysis.ts: the analysis of a finished recording                 *)
(*                                                                         *)
(* Durations are whole seconds, as the recorder's timer counts them.       *)
(***************************************************************************)
\* FILLER_WORDS of speechAnalysis.ts
SpeechAnalyzer_FILLER_WORDS ==
  <<<<"u", "m">>,
    <<"u", "h">>,
    <<"l", "i", "k", "e">>,
    <<"y", "o", "u", " ", "k", "n", "o", "w">>,
    <<"s", "o">>,
    <<"a", "c", "t", "u", "a", "l", "l", "y">>,
    <<"b", "a", "s", "i", "c", "a", "l", "l", "y">>,
    <<"l", "i", "t", "e", "r", "a", "l", "l", "y">>,
    <<"r", "i", "g", "h", "t">>,
    <<"o", "k", "a", "y">>,
    <<"w", "e", "l", "l">>,
    <<"i", " ", "m", "e", "a", "n">>,
    <<"s", "o", "r", "t", " ", "o", "f">>,
    <<"k", "i", "n", "d", " ", "o", "f">>>>

RECURSIVE CountFillersFrom(_, _)
\* FILLER_WORDS.forEach(fillerWord => fillerWordCount += matches.length),
\* from the k-th entry on
CountFillersFrom(transcription, k) ==
  IF k > Len(SpeechAnalyzer_FILLER_WORDS) THEN 0
  ELSE Len(MatchAll(transcription, SpeechAnalyzer_FILLER_WORDS[k]))
       + CountFillersFrom(transcription, k + 1)

\* m is [fillerWordCount, wordCount, speakingRate, volumeVariation,
\* silencePercentage]
calculateConfidenceScore(m) ==
  LET fillerRatio == Div(Num(m.fillerWordCount), Num(IF m.wordCount > 1 THEN m.wordCount ELSE 1))
      rateDeviation == Div(MathAbs(Sub(m.speakingRate, Num(150))), Num(150))
      afterFillers == Sub(Num(100), Mul(fillerRatio, Num(100)))
      afterRate == Sub(afterFillers, Mul(rateDeviation, Num(30)))
      afterSilence ==
        IF Gt(m.silencePercentage, Num(30))
        THEN Sub(afterRate, Mul(Sub(m.silencePercentage, Num(30)), Num(2)))
        ELSE afterRate
      score ==
        IF Lt(m.volumeVariation, Frac(1, 10)) THEN Sub(afterSilence, Num(20))
        ELSE afterSilence
  IN  MathMax(Num(0), MathMin(Num(100), MathRound(score)))

\* audioMetrics is [silencePercentage, volumeVariation]
processTranscription(transcription, duration, audioMetrics) ==
  LET wordCount == Cardinality(WordStarts(toLowerCase(transcription)))
      fillerWordCount == CountFillersFrom(transcription, 1)
      speakingRate == Mul(Div(Num(wordCount), Num(duration)), Num(60))
      silence == Mul(Div(audioMetrics.silencePercentage, Num(100)), Num(duration))
      pauseCount == MathFloor(Mul(silence, Num(2)))
      averagePauseLength == Div(silence, MathMax(pauseCount, Num(1)))
  IN  [transcription |-> transcription,
       wordCount |-> wordCount,
       fillerWordCount |-> fillerWordCount,
       speakingRate |-> speakingRate,
       pauseCount |-> pauseCount,
       averagePauseLength |-> averagePauseLength,
       confidenceScore |->
         calculateConfidenceScore(
           [fillerWordCount |-> fillerWordCount, wordCount |-> wordCount,
            speakingRate |-> speakingRate,
            volumeVariation |-> audioMetrics.volumeVariation,
            silencePercentage |-> audioMetrics.silencePercentage])]

(***************************************************************************)
(* aiFeedback.ts: AIFeedbackGenerator                                      *)
(***************************************************************************)
\* transcription.toLowerCase().includes(pattern)
Includes(transcription, pattern) ==
  LET text == toLowerCase(transcription)
  IN  \E i \in 1..Len(text) : LiteralAt(text, i, pattern)

\* patterns.some(pattern => transcription.toLowerCase().includes(pattern))
IncludesSome(transcription, patterns) ==
  \E k \in 1..Len(patterns) : Includes(transcription, patterns[k])

\* checkVocabularyQuality
professionalWords ==
  <<<<"e", "x", "p", "e", "r", "i", "e", "n", "c", "e">>,
    <<"a", "c", "h", "i", "e", "v", "e">>,
    <<"d", "e", "v", "e", "l", "o", "p">>,
    <<"m", "a", "n", "a", "g", "e">>,
    <<"i", "m", "p", "l", "e", "m", "e", "n", "t">>,
    <<"c", "o", "l", "l", "a", "b", "o", "r", "a", "t", "e">>,
    <<"a", "n", "a", "l", "y", "z", "e">>,
    <<"s", "t", "r", "a", "t", "e", "g", "i", "c">>,
    <<"i", "n", "n", "o", "v", "a", "t", "i", "v", "e">>,
    <<"e", "f", "f", "e", "c", "t", "i", "v", "e">>>>

\* hasIntroductoryPhrase
introPatterns ==
  <<<<"l", "e", "t", " ", "m", "e", " ", "s", "t", "a", "r", "t">>,
    <<"f", "i", "r", "s", "t">>,
    <<"t", "o", " ", "b", "e", "g", "i", "n">>,
    <<"i", "n", "i", "t", "i", "a", "l", "l", "y">>,
    <<"w", "e", "l", "l", ",">>>>

\* hasConclusivePhrase
conclusionPatterns ==
  <<<<"i", "n", " ", "c", "o", "n", "c", "l", "u", "s", "i", "o", "n">>,
    <<"t", "o", " ", "s", "u", "m", "m", "a", "r", "i", "z", "e">>,
    <<"o", "v", "e", "r", "a", "l", "l">>,
    <<"f", "i", "n", "a", "l", "l", "y">>,
    <<"i", "n", " ", "s", "u", "m", "m", "a", "r", "y">>>>

\* hasTransitionWords
transitions ==
  <<<<"h", "o", "w", "e", "v", "e", "r">>,
    <<"a", "d", "d", "i", "t", "i", "o", "n", "a", "l", "l", "y">>,
    <<"f", "u", "r", "t", "h", "e", "r", "m", "o", "r", "e">>,
    <<"m", "o", "r", "e", "o", "v", "e", "r">>,
    <<"t", "h", "e", "r", "e", "f", "o", "r", "e">>,
    <<"c", "o", "n", "s", "e", "q", "u", "e", "n", "t", "l", "y">>,
    <<"f", "o", "r", " ", "e", "x", "a", "m", "p", "l", "e">>,
    <<"s", "p", "e", "c", "i", "f", "i", "c", "a", "l", "l", "y">>>>

\* hasSpecificExamples
examplePatterns ==
  <<<<"f", "o", "r", " ", "e", "x", "a", "m", "p", "l", "e">>,
    <<"f", "o", "r", " ", "i", "n", "s", "t", "a", "n", "c", "e">>,
    <<"s", "p", "e", "c", "i", "f", "i", "c", "a", "l", "l", "y">>,
    <<"i", "n", " ", "m", "y", " ", "p", "r", "e", "v", "i", "o", "u", "s", " ", "r", "o", "l", "e">>,
    <<"a", "t", " ", "m", "y", " ", "l", "a", "s", "t", " ", "j", "o", "b">>,
    <<"w", "h", "e", "n", " ", "I", " ", "w", "o", "r", "k", "e", "d">>>>

checkVocabularyQuality(transcription) ==
  Cardinality({k \in 1..Len(professionalWords) :
                 Includes(transcription, professionalWords[k])}) >= 2
hasIntroductoryPhrase(transcription) == IncludesSome(transcription, introPatterns)
hasConclusivePhrase(transcription) == IncludesSome(transcription, conclusionPatterns)
hasTransitionWords(transcription) == IncludesSome(transcription, transitions)
hasSpecificExamples(transcription) == IncludesSome(transcription, examplePatterns)

\* Math.max(0, Math.min(100, Math.round(score)))
Clamp(score) == MathMax(Num(0), MathMin(Num(100), MathRound(score)))

AIFeedbackGenerator_calculateClarityScore(speechAnalysis, transcription) ==
  LET wordCount == speechAnalysis.wordCount
      fillerRatio == Div(Num(speechAnalysis.fillerWordCount),
                         Num(IF wordCount > 1 THEN wordCount ELSE 1))
      afterFillers == Sub(Num(100), Mul(fillerRatio, Num(150)))
      afterLength ==
        IF wordCount < 30 THEN Sub(afterFillers, Num(20))
        ELSE IF wordCount > 300 THEN Sub(afterFillers, Num(10))
        ELSE afterFillers
      score ==
        IF checkVocabularyQuality(transcription) THEN Add(afterLength, Num(10))
        ELSE afterLength
  IN  Clamp(score)

AIFeedbackGenerator_calculateStructureScore(transcription, duration) ==
  LET score ==
        70 + (IF hasIntroductoryPhrase(transcription) THEN 10 ELSE 0)
           + (IF hasConclusivePhrase(transcription) THEN 10 ELSE 0)
           + (IF hasTransitionWords(transcription) THEN 10 ELSE 0)
           + (IF hasSpecificExamples(transcription) THEN 15 ELSE 0)
           - (IF duration < 30 THEN 15 ELSE 0)
           - (IF duration > 180 THEN 10 ELSE 0)
  IN  Clamp(Num(score))

AIFeedbackGenerator_calculatePaceScore(speechAnalysis) ==
  LET rateDeviation == MathAbs(Sub(speechAnalysis.speakingRate, Num(150)))
      afterRate ==
        IF Gt(rateDeviation, Num(50)) THEN Num(70)
        ELSE IF Gt(rateDeviation, Num(30)) THEN Num(80)
        ELSE IF Gt(rateDeviation, Num(15)) THEN Num(90)
        ELSE Num(100)
      afterLong ==
        IF Gt(speechAnalysis.averagePauseLength, Num(3)) THEN Sub(afterRate, Num(15))
        ELSE afterRate
      score ==
        IF Lt(speechAnalysis.averagePauseLength, Frac(1, 2)) THEN Sub(afterLong, Num(10))
        ELSE afterLong
  IN  Clamp(score)

additionalStrengths ==
  <<"Maintained professional tone throughout",
    "Showed confidence in your delivery",
    "Addressed the question directly",
    "Demonstrated good preparation">>

additionalImprovements ==
  <<"Practice the STAR method for behavioral questions",
    "Work on maintaining eye contact with the interviewer",
    "Prepare more quantifiable achievements to share",
    "Practice concluding answers with a strong summary">>

\* while (items.length < 3) { push a random entry of pool not yet there }:
\* order lists the entries of pool in the order in which Math.random()
\* first draws them
PadToThree(items, pool, order) ==
  LET need == IF Len(items) < 3 THEN 3 - Len(items) ELSE 0
  IN  items \o [i \in 1..need |-> pool[order[i]]]

\* the orders considered in which Math.random() first draws the four
\* entries of a pool
Orders == {<<1, 2, 3, 4>>, <<4, 3, 2, 1>>}

\* scores is [overall, clarity, structure, pace]
generateContextualFeedback(criteria, scores, order) ==
  LET speechAnalysis == criteria.speechAnalysis
      transcription == criteria.transcription
      slow == Lt(speechAnalysis.speakingRate, Num(120))
      fast == ~slow /\ Gt(speechAnalysis.speakingRate, Num(180))
      opening ==
        IF Ge(scores.overall, Num(80)) THEN "Excellent response!"
        ELSE IF Ge(scores.overall, Num(60)) THEN "Good response overall."
        ELSE "There's room for improvement in your response."
      paceText ==
        IF slow THEN <<"Consider speaking a bit faster to maintain engagement.">>
        ELSE IF fast THEN <<"Try to slow down slightly to ensure clarity.">>
        ELSE << >>
      strengths ==
        (IF ~slow /\ ~fast
         THEN <<"Maintained an appropriate speaking pace throughout">> ELSE << >>)
        \o (IF speechAnalysis.fillerWordCount <= 2
            THEN <<"Minimal use of filler words - very professional">> ELSE << >>)
        \o (IF speechAnalysis.wordCount >= 50
            THEN <<"Provided comprehensive response with good detail">> ELSE << >>)
        \o (IF hasSpecificExamples(transcription)
            THEN <<"Used specific examples to support your points">> ELSE << >>)
        \o (IF hasTransitionWords(transcription)
            THEN <<"Good use of transitions to connect ideas">> ELSE << >>)
      improvements ==
        (IF slow THEN <<"Increase speaking pace slightly to maintain listener engagement">>
         ELSE IF fast THEN <<"Slow down your speaking pace for better clarity">>
         ELSE << >>)
        \o (IF speechAnalysis.fillerWordCount <= 2 THEN << >>
            ELSE IF speechAnalysis.fillerWordCount <= 5
            THEN <<"Reduce filler words like \"um\" and \"uh\" for more polished delivery">>
            ELSE <<"Significantly reduce filler words to sound more confident">>)
        \o (IF speechAnalysis.wordCount >= 50 THEN << >>
            ELSE <<"Expand your answers with more specific examples and details">>)
        \o (IF hasSpecificExamples(transcription) THEN << >>
            ELSE <<"Include specific examples to make your responses more compelling">>)
        \o (IF hasTransitionWords(transcription) THEN << >>
            ELSE <<"Use transition words to better connect your ideas">>)
  IN  [text |-> [opening |-> opening, pace |-> paceText,
                 confidence |-> speechAnalysis.confidenceScore],
       strengths |-> Slice(PadToThree(strengths, additionalStrengths, order), 4),
       improvements |-> Slice(PadToThree(improvements, additionalImprovements, order), 4)]

\* uuid and now are what crypto.randomUUID() and new Date() return
generateEnhancedMockFeedback(criteria, order, uuid, now) ==
  LET clarityScore ==
        AIFeedbackGenerator_calculateClarityScore(criteria.speechAnalysis,
                                                  criteria.transcription)
      structureScore ==
        AIFeedbackGenerator_calculateStructureScore(criteria.transcription,
                                                    criteria.duration)
      paceScore == AIFeedbackGenerator_calculatePaceScore(criteria.speechAnalysis)
      overallScore ==
        MathRound(Div(Add(Add(clarityScore, structureScore), paceScore), Num(3)))
      feedback ==
        generateContextualFeedback(
          criteria,
          [overall |-> overallScore, clarity |-> clarityScore,
           structure |-> structureScore, pace |-> paceScore],
          order)
  IN  [id |-> uuid,
       session_id |-> "",
       overall_score |-> overallScore,
       clarity_score |-> clarityScore,
       structure_score |-> structureScore,
       pace_score |-> paceScore,
       filler_word_count |-> criteria.speechAnalysis.fillerWordCount,
       feedback_text |-> feedback.text,
       strengths |-> feedback.strengths,
       improvements |-> feedback.improvements,
       created_at |-> now]

\* response.field || fallback for a numeric field: the fallback when the
\* field is missing, 0 or NaN.  A reply is [has, overall_score, clarity_score,
\* structure_score, pace_score, feedback_text, strengths, improvements], has
\* being the set of the fields that the JSON object carries.
OrElse(response, field, fallback) ==
  IF field \notin response.has \/ IsNaN(response[field]) \/ response[field] = Num(0)
  THEN fallback
  ELSE response[field]

\* Math.max(0, Math.min(100, x))
Bounded(x) == MathMax(Num(0), MathMin(Num(100), x))

\* the response is not null
parseFeedbackResponse(response, criteria, uuid, now) ==
  [id |-> uuid,
   session_id |-> "",
   overall_score |-> Bounded(OrElse(response, "overall_score", Num(75))),
   clarity_score |-> Bounded(OrElse(response, "clarity_score", Num(75))),
   structure_score |-> Bounded(OrElse(response, "structure_score", Num(75))),
   pace_score |-> Bounded(OrElse(response, "pace_score", Num(75))),
   filler_word_count |-> criteria.speechAnalysis.fillerWordCount,
   feedback_text |->
     IF "feedback_text" \in response.has /\ response.feedback_text # ""
     THEN [reply |-> response.feedback_text]
     ELSE [reply |-> "Good effort on your response!"],
   strengths |->
     IF "strengths" \in response.has THEN response.strengths
     ELSE <<"Clear communication", "Professional demeanor",
            "Good understanding of the question">>,
   improvements |->
     IF "improvements" \in response.has THEN response.improvements
     ELSE <<"Add more specific examples", "Improve response structure",
            "Reduce filler words">>,
   created_at |-> now]

\* no feedback record yet
NoFeedback ==
  [id |-> "", session_id |-> "", overall_score |-> Num(0), clarity_score |-> Num(0),
   structure_score |-> Num(0), pace_score |-> Num(0), filler_word_count |-> 0,
   feedback_text |-> [fixed |-> ""], strengths |-> << >>, improvements |-> << >>,
   created_at |-> 0]

\* (a variant whose catch block lets the error through)
CatchBlockRethrows(criteria, order, uuid, now) ==
  [state |-> "rejected",
   value |-> generateEnhancedMockFeedback(criteria, order, uuid, now)]

\* generateFeedback, catch (error) { return generateEnhancedMockFeedback }:
\* the promise is fulfilled with the mock feedback
CatchBlock(criteria, order, uuid, now) ==
  [state |-> "resolved",
   value |-> generateEnhancedMockFeedback(criteria, order, uuid, now)]

\* the replies considered: the JSON text null, an object with every field,
\* an object with scores 0, 150, -5 and 86.5 and nothing else, an empty
\* object
Replies ==
  {[isNull |-> TRUE, has |-> {},
    overall_score |-> Num(0), clarity_score |-> Num(0),
    structure_score |-> Num(0), pace_score |-> Num(0),
    feedback_text |-> "", strengths |-> << >>, improvements |-> << >>],
   [isNull |-> FALSE,
    has |-> {"overall_score", "clarity_score", "structure_score", "pace_score",
             "feedback_text", "strengths", "improvements"},
    overall_score |-> Num(88), clarity_score |-> Num(90),
    structure_score |-> Num(85), pace_score |-> Num(80),
    feedback_text |-> "A focused answer.",
    strengths |-> <<"Concrete example", "Clear result", "Calm delivery">>,
    improvements |-> <<"Shorter opening", "Name your role", "Closing summary">>],
   [isNull |-> FALSE,
    has |-> {"overall_score", "clarity_score", "structure_score", "pace_score"},
    overall_score |-> Num(0), clarity_score |-> Num(150),
    structure_score |-> Num(-5), pace_score |-> Frac(173, 2),
    feedback_text |-> "", strengths |-> << >>, improvements |-> << >>],
   [isNull |-> FALSE, has |-> {},
    overall_score |-> Num(0), clarity_score |-> Num(0),
    structure_score |-> Num(0), pace_score |-> Num(0),
    feedback_text |-> "", strengths |-> << >>, improvements |-> << >>]}

NoReply == CHOOSE r \in Replies : r.isNull

\* how the call of the OpenAI API ends: fetch rejects, the status is not ok,
\* response.json() rejects, the body has no choices, the content is not
\* JSON, or the content parses to a reply
ApiOutcomes ==
  {[kind |-> k, reply |-> NoReply] :
     k \in {"fetch rejects", "status not ok", "body not json", "no choices",
            "content not json"}}
  \cup {[kind |-> "reply", reply |-> r] : r \in Replies}

\* callOpenAI throws for the outcome, or parseFeedbackResponse throws on
\* its result (a property of null is read)
Throws(outcome) == outcome.kind # "reply" \/ outcome.reply.isNull

\* generateFeedback up to its first await: without an API key the mock
\* feedback is returned at once, otherwise the request is sent
generateFeedbackCall(apiKey, criteria, order, uuid, now) ==
  IF ~apiKey
  THEN [state |-> "resolved",
        value |-> generateEnhancedMockFeedback(criteria, order, uuid, now)]
  ELSE [state |-> "fetching", value |-> NoFeedback]

\* generateFeedback after the request has ended with outcome
generateFeedbackSettle(outcome, criteria, order, uuid, now) ==
  IF Throws(outcome) THEN CatchBlock(criteria, order, uuid, now)
  ELSE [state |-> "resolved",
        value |-> parseFeedbackResponse(outcome.reply, criteria, uuid, now)]

(***************************************************************************)
(* App.tsx and InterviewRecorder.tsx: from a recording to stored feedback  *)
(***************************************************************************)
\* the recordings started in one behaviour, and the seconds the timer counts
MaxRecordings == 1
MaxSeconds == 1

\* what crypto.randomUUID() returns for the session and for the feedback
\* of the k-th call of handleRecordingComplete
SessionIds == <<"session-1", "session-2", "session-3", "session-4">>
FeedbackIds == <<"feedback-1", "feedback-2", "feedback-3", "feedback-4">>

\* the fallback record of handleRecordingComplete
FallbackFeedback(sessionId, uuid, now) ==
  [id |-> uuid,
   session_id |-> sessionId,
   overall_score |-> Num(75),
   clarity_score |-> Num(75),
   structure_score |-> Num(75),
   pace_score |-> Num(75),
   filler_word_count |-> 5,
   feedback_text |-> [fixed |-> "Unable to analyze speech. Please ensure microphone permissions are granted and try again."],
   strengths |-> <<"Completed the recording", "Attempted the question">>,
   improvements |-> <<"Enable speech analysis for detailed feedback",
                      "Check microphone settings">>,
   created_at |-> now]

\* the transcripts the speech recognition can deliver
AppTranscripts == {<< >>, ScenarioD}

\* what the decoded audio can measure: [silencePercentage, volumeVariation]
AudioMetricsSet ==
  {[silencePercentage |-> Num(20), volumeVariation |-> Frac(2, 10)],
   [silencePercentage |-> Num(50), volumeVariation |-> Frac(5, 100)]}

NoAnalysis ==
  [transcription |-> << >>, wordCount |-> 0, fillerWordCount |-> 0,
   speakingRate |-> Num(0), pauseCount |-> Num(0), averagePauseLength |-> Num(0),
   confidenceScore |-> Num(0)]

\* the component state of a newly mounted InterviewRecorder; current is the
\* recording that mediaRecorderRef holds (0: none), liveStreams the number
\* of media streams acquired whose tracks have not been stopped
FreshRecorder ==
  [mounted |-> TRUE, stream |-> FALSE, isRecording |-> FALSE, recordingTime |-> 0,
   timer |-> FALSE, current |-> 0, realTimeTranscript |-> << >>,
   fillerWordCount |-> 0, liveStreams |-> 0]

\* AppContent renders InterviewRecorder when it is not processing and the
\* view is the session
Mounted(a) == ~a.isProcessing /\ a.currentView = "session"

\* the recorder after AppContent has rendered with state a: it stays, is
\* mounted anew, or is unmounted.  The cleanup of useEffect(..., []) clears
\* the interval of timerRef; the stream it tests is the state of the first
\* render, null, so the streams acquired since stay live (liveStreams)
Rendered(a, r) ==
  IF Mounted(a)
  THEN (IF r.mounted THEN r ELSE [FreshRecorder EXCEPT !.liveStreams = r.liveStreams])
  ELSE [FreshRecorder EXCEPT !.mounted = FALSE, !.liveStreams = r.liveStreams]

\* (a variant of the test below that always takes the generator's branch)
AlwaysGenerates(analysis) == TRUE

\* handleRecordingComplete: if (speechAnalysis)
UsesGenerator(analysis) == analysis.given

\* the criteria that handleRecordingComplete passes to generateFeedback
Criteria(h) ==
  [transcription |-> h.analysis.value.transcription,
   question |-> Question,
   speechAnalysis |-> h.analysis.value,
   duration |-> h.durationSeconds]

\* the ai_feedback table accepts the row: the scores are integers in
\* [0,100], the session exists and has no feedback yet
AcceptsFeedback(d, row) ==
  /\ \A s \in {row.overall_score, row.clarity_score, row.structure_score, row.pace_score} :
       IsInteger(s) /\ s.n \in 0..100
  /\ row.session_id \in {s.id : s \in d.interview_sessions}
  /\ row.session_id \notin {f.session_id : f \in d.ai_feedback}

\* a call of handleRecordingComplete for recording n, before its first await
NewRun(n, durationSeconds, analysis) ==
  [recording |-> n, durationSeconds |-> durationSeconds, analysis |-> analysis,
   pc |-> "insertSession", aiFeedback |-> NoFeedback,
   gen |-> [state |-> "idle", value |-> NoFeedback],
   generateFeedbackCalls |-> 0, apiCalls |-> 0, threw |-> FALSE,
   response |-> NoReply]


(***************************************************************************)
(* speechAnalysis.ts: the real-time analysis of the SpeechAnalyzer         *)
(*                                                                         *)
(* analyzer is the SpeechAnalyzer of the mounted recorder:                 *)
(*   supported    the browser has a speech recognition (this.recognition)  *)
(*   recognition  "idle", "listening", or "stopping" (stop() was called    *)
(*                and the end event has not been fired yet)                *)
(*   handler      the onresult handler installed: 0 none, s > 0 that of    *)
(*                the s-th call of startRealTimeAnalysis, -1 that of       *)
(*                transcribeAudio                                          *)
(*   results      the result list of the recognition, each result with the *)
(*                session in which it was heard                            *)
(*   events       the number of result events fired so far                 *)
(*   sessions     per call of startRealTimeAnalysis: whether its volume    *)
(*                loop is scheduled, the frames it has analysed, whether   *)
(*                stopRealTimeAnalysis was called since, and the frames    *)
(*                analysed (and rescheduled) after that                    *)
(*   updates      the calls of onUpdate so far, oldest first               *)
(*   onend        the onend handler installed: 0 none, n > 0 that of the   *)
(*                call of transcribeAudio for recording n (it resolves     *)
(*                the promise of that call)                                *)
(*   playback     the recording whose playback started the recognition     *)
(*                session that runs or ran last (0: startRealTimeAnalysis  *)
(*                started it)                                              *)
(***************************************************************************)
MaxResults == 3
MaxFrames == 2

\* what the recognition hears between two result events
Fragments == {<<"u", "m">>, <<" ", "s", "o">>}

FreshAnalyzer(supported) ==
  [supported |-> supported, recognition |-> "idle", handler |-> 0,
   results |-> << >>, events |-> 0, sessions |-> << >>, updates |-> << >>,
   onend |-> 0, playback |-> 0]

\* countFillerWords(text)
countFillerWords(text) == CountFillersFrom(text, 1)

RECURSIVE InterimFrom(_, _)
\* for (let i = event.resultIndex; i < event.results.length; i++)
\*   interimTranscript += event.results[i][0].transcript
InterimFrom(results, i) ==
  IF i > Len(results) THEN << >>
  ELSE results[i].transcript \o InterimFrom(results, i + 1)

\* (a variant whose update also carries a confidence score)
onresultWithScore(results, resultIndex) ==
  LET interimTranscript == InterimFrom(results, resultIndex)
      fillers == countFillerWords(interimTranscript)
      words == Cardinality(WordStarts(toLowerCase(interimTranscript)))
  IN  [transcription |-> interimTranscript,
       fillerWordCount |-> fillers,
       confidenceScore |->
         calculateConfidenceScore(
           [fillerWordCount |-> fillers, wordCount |-> words,
            speakingRate |-> Num(150), volumeVariation |-> Frac(2, 10),
            silencePercentage |-> Num(20)])]

\* recognition.onresult of startRealTimeAnalysis: the update it hands to
\* onUpdate for the event (results, resultIndex)
onresult(results, resultIndex) ==
  LET interimTranscript == InterimFrom(results, resultIndex)
  IN  [transcription |-> interimTranscript,
       fillerWordCount |-> countFillerWords(interimTranscript)]

\* recognition.start() throws when the recognition has not ended yet
StartThrows(a) == a.recognition # "idle"

\* startRealTimeAnalysis(stream, onUpdate): the handler is installed, the
\* recognition started and the volume loop begun (its first frame is
\* analysed at once); when start() throws there is no volume loop
startRealTimeAnalysis(a) ==
  IF ~a.supported THEN a
  ELSE IF StartThrows(a)
  THEN [a EXCEPT !.handler = Len(a.sessions) + 1,
                 !.sessions = Append(@, [loop |-> FALSE, frames |-> 0,
                                         stopped |-> FALSE, lateFrames |-> 0])]
  ELSE [a EXCEPT !.handler = Len(a.sessions) + 1,
                 !.recognition = "listening",
                 !.playback = 0,
                 !.results = << >>,
                 !.sessions = Append(@, [loop |-> TRUE, frames |-> 1,
                                         stopped |-> FALSE, lateFrames |-> 0])]

\* stopRealTimeAnalysis(): recognition.stop() and audioContext.close();
\* no handler is removed and no animation frame is cancelled
stopRealTimeAnalysis(a) ==
  IF ~a.supported THEN a
  ELSE [a EXCEPT !.recognition = IF @ = "listening" THEN "stopping" ELSE @,
                 !.sessions = [s \in 1..Len(@) |-> [@[s] EXCEPT !.stopped = TRUE]]]

\* transcribeAudio(audioBlob) for recording n up to its first wait: without
\* a recognition it rejects, otherwise it installs its own handlers
\* (onresult, onend, onerror) on the recognition
transcribeAudio(a, n) ==
  IF a.supported THEN [a EXCEPT !.handler = -1, !.onend = n] ELSE a

\* the callback that startRecording hands to startRealTimeAnalysis
OnUpdate(r, update) ==
  IF ~r.mounted THEN r
  ELSE [r EXCEPT !.realTimeTranscript =
                   IF update.transcription # << >> THEN update.transcription ELSE @,
                 !.fillerWordCount = update.fillerWordCount]

\* the analyzer after the recorder r has been rendered as r2: the cleanup
\* of an unmounted recorder stops the real-time analysis, and a recorder
\* mounted anew creates its own SpeechAnalyzer (the volume loops of the
\* previous one go on)
AnalyzerRendered(a, r, r2) ==
  IF r.mounted /\ ~r2.mounted THEN stopRealTimeAnalysis(a)
  ELSE IF ~r.mounted /\ r2.mounted
  THEN [a EXCEPT !.recognition = "idle", !.handler = 0, !.results = << >>,
                 !.onend = 0, !.playback = 0]
  ELSE a
(***************************************************************************)
(* The batch pipeline: handleRecordingComplete of the App variant that     *)
(* calls the batch engine (steps 2 to 4), run on one transcription         *)
(***************************************************************************)
VARIABLES
  transcription,    \* the TranscriptionResult under analysis
  pc,               \* the step the pipeline has reached
  metrics,          \* SpeechMetrics
  clarityScore,
  structureScore,
  paceScore,
  runs,             \* the feedback records produced so far, oldest first
  fixture,          \* the second SpeechMetrics of a comparison and its score
  app,              \* AppContent: [apiKey, isProcessing, currentView, alerts, shown]
  recorder,         \* the state of the mounted InterviewRecorder
  recordings,       \* the MediaRecorders started: [captured, phase, elapsed,
                    \* promise, audio, early]
  handlers,         \* the calls of handleRecordingComplete, oldest first
  db,               \* the tables interview_sessions, ai_feedback, progress_metrics
  analyzer          \* the SpeechAnalyzer of the recorder (real-time analysis)

engineVars ==
  <<transcription, pc, metrics, clarityScore, structureScore, paceScore, runs,
    fixture>>

appVars == <<app, recorder, recordings, handlers, db>>

vars == <<engineVars, appVars, analyzer>>

\* the application at rest on the dashboard
NoApp ==
  [apiKey |-> FALSE, isProcessing |-> FALSE, currentView |-> "dashboard",
   alerts |-> 0, shown |-> 0]

EmptyDb == [interview_sessions |-> {}, ai_feedback |-> {}, progress_metrics |-> {}]

\* the application takes no part in the runs of the batch engine
AppAtRest ==
  /\ app = NoApp
  /\ recorder = Rendered(NoApp, FreshRecorder)
  /\ recordings = << >>
  /\ handlers = << >>
  /\ db = EmptyDb
  /\ analyzer = FreshAnalyzer(TRUE)

NoMetrics ==
  [wordsPerMinute |-> Num(0), fillerWords |-> << >>, fillerWordCount |-> 0,
   pauseDurations |-> << >>, averagePauseDuration |-> Num(0), sentenceCount |-> 0,
   wordCount |-> 0, uniqueWordCount |-> 0, vocabularyRichness |-> Num(0)]

NoFixture == [metrics |-> NoMetrics, clarityScore |-> Num(0)]

\* the values crypto.randomUUID() can return
UUIDs == {"uuid-a", "uuid-b"}

Init ==
  /\ transcription \in Transcriptions
  /\ pc = "transcribed"
  /\ metrics = NoMetrics
  /\ clarityScore = Num(0)
  /\ structureScore = Num(0)
  /\ paceScore = Num(0)
  /\ runs = << >>
  /\ fixture = NoFixture
  /\ AppAtRest

\* Step 2: const metrics = analyzeSpeechMetrics(transcription)
AnalyzeSpeechMetrics ==
  /\ pc = "transcribed"
  /\ metrics' = analyzeSpeechMetrics(transcription)
  /\ pc' = "analyzed"
  /\ UNCHANGED <<transcription, clarityScore, structureScore, paceScore, runs, fixture, appVars, analyzer>>

\* Step 3: the three scores
CalculateClarityScore ==
  /\ pc = "analyzed"
  /\ clarityScore' = calculateClarityScore(metrics, transcription)
  /\ pc' = "clarity"
  /\ UNCHANGED <<transcription, metrics, structureScore, paceScore, runs, fixture, appVars, analyzer>>

CalculateStructureScore ==
  /\ pc = "clarity"
  /\ structureScore' = calculateStructureScore(metrics)
  /\ pc' = "structure"
  /\ UNCHANGED <<transcription, metrics, clarityScore, paceScore, runs, fixture, appVars, analyzer>>

CalculatePaceScore ==
  /\ pc = "structure"
  /\ paceScore' = calculatePaceScore(metrics)
  /\ pc' = "pace"
  /\ UNCHANGED <<transcription, metrics, clarityScore, structureScore, runs, fixture, appVars, analyzer>>

AnalysisInput ==
  [question |-> Question, transcription |-> transcription, metrics |-> metrics,
   clarityScore |-> clarityScore, structureScore |-> structureScore,
   paceScore |-> paceScore]

\* Step 4: const feedback = generateAIFeedback({...}, sessionId); the uuid
\* is fresh and the clock has advanced since the previous run
GenerateAIFeedback ==
  /\ pc = "pace"
  /\ \E uuid \in UUIDs \ {runs[k].id : k \in 1..Len(runs)} :
       runs' = Append(runs, generateAIFeedback(AnalysisInput, "session", uuid, Len(runs) + 1))
  /\ pc' = "done"
  /\ UNCHANGED <<transcription, metrics, clarityScore, structureScore, paceScore, fixture, appVars, analyzer>>

\* the pipeline is run a second time on the same transcription
RunAgain ==
  /\ pc = "done"
  /\ Len(runs) < 2
  /\ pc' = "transcribed"
  /\ metrics' = NoMetrics
  /\ clarityScore' = Num(0)
  /\ structureScore' = Num(0)
  /\ paceScore' = Num(0)
  /\ UNCHANGED <<transcription, runs, fixture, appVars, analyzer>>

Next ==
  \/ AnalyzeSpeechMetrics
  \/ CalculateClarityScore
  \/ CalculateStructureScore
  \/ CalculatePaceScore
  \/ GenerateAIFeedback
  \/ RunAgain

Spec == Init /\ [][Next]_vars

(***************************************************************************)
(* Properties of the batch pipeline (specification Spec)                   *)
(***************************************************************************)
\* the feedback record of the latest run
LastFeedback == runs[Len(runs)]

\* the contentScore that analyzeResponseContent returns inside
\* generateAIFeedback for the transcription under analysis
ContentScore == analyzeResponseContent(Question, transcription, metrics).contentScore

\* x is an integer between 0 and 100
IsScore(x) == IsInteger(x) /\ x.n \in 0..100

\* C1: for every transcript with a duration > 0 (any text, any word list
\* with confidences in [0,1]), the clarity, structure and pace scores, the
\* content score and the overall score are each integers in [0,100].
\* (calculateStructureScore returns 110 for some transcripts, so this is
\* violated.)
C1_ScoresInRange ==
  (pc = "done" /\ transcription.duration > 0) =>
    LET contentScore == ContentScore
    IN  /\ IsScore(clarityScore)
        /\ IsScore(structureScore)
        /\ IsScore(paceScore)
        /\ IsScore(contentScore)
        /\ IsScore(LastFeedback.overall_score)

\* C2: whenever the four sub-scores are integers (those in [0,100]
\* included), the overall_score of the record is the integer nearest to
\* 0.30*clarity + 0.25*structure + 0.25*pace + 0.20*content, a tie going up,
\* where content is the contentScore of analyzeResponseContent for the same
\* input.  In hundredths: w - 50 < 100 * overall <= w + 50.
C2_WeightedOverall ==
  pc = "done" =>
    LET contentScore == ContentScore
        w == 30 * clarityScore.n + 25 * structureScore.n
             + 25 * paceScore.n + 20 * contentScore.n
        overall == LastFeedback.overall_score
    IN  (/\ IsInteger(clarityScore) /\ IsInteger(structureScore)
         /\ IsInteger(paceScore) /\ IsInteger(contentScore)) =>
          /\ IsInteger(overall)
          /\ w - 50 < 100 * overall.n
          /\ 100 * overall.n <= w + 50

\* a run ended with four sub-scores in [0,100] whose weighted sum is exactly
\* halfway between two integers
C2_Witness ==
  /\ pc = "done"
  /\ LET contentScore == ContentScore
     IN  /\ IsScore(clarityScore) /\ IsScore(structureScore)
         /\ IsScore(paceScore) /\ IsScore(contentScore)
         /\ (30 * clarityScore.n + 25 * structureScore.n
             + 25 * paceScore.n + 20 * contentScore.n) % 100 = 50

\* the fields of a feedback record other than id and created_at
Outputs(record) ==
  <<record.overall_score, record.clarity_score, record.structure_score,
    record.pace_score, record.filler_word_count, record.feedback_text,
    record.strengths, record.improvements>>

SignalDetected ==
  analyzeResponseContent(Question, transcription, metrics).strengths # << >>

EmptyTranscript ==
  /\ transcription.text = << >>
  /\ transcription.words = << >>
  /\ transcription.duration = 0

\* C5: on the empty transcript with duration 0 every step of the pipeline
\* yields its value and the run ends with a feedback record; each
\* sub-score, once computed, and the overall score are finite integers in
\* [0,100].
C5_EmptyTranscript ==
  EmptyTranscript =>
    /\ pc \in {"transcribed", "analyzed", "clarity", "structure", "pace", "done"}
    /\ (pc = "done" => Len(runs) >= 1)
    /\ (pc \in {"clarity", "structure", "pace", "done"} => IsScore(clarityScore))
    /\ (pc \in {"structure", "pace", "done"} => IsScore(structureScore))
    /\ (pc \in {"pace", "done"} => IsScore(paceScore))
    /\ (pc = "done" => LET contentScore == ContentScore
                       IN  /\ IsScore(contentScore)
                           /\ IsScore(LastFeedback.overall_score))

\* the pipeline has ended on the empty transcript, whose speaking rate and
\* vocabulary richness are not numbers
C5_Witness ==
  /\ EmptyTranscript
  /\ pc = "done"
  /\ IsNaN(metrics.wordsPerMinute)
  /\ IsNaN(metrics.vocabularyRichness)

\* C6: analyzeSpeechMetrics returns wordsPerMinute = 0 whenever
\* duration <= 0 and vocabularyRichness = 0 whenever wordCount = 0, and no
\* numeric field of the metrics is NaN or Infinity.  (The code divides
\* without a guard, so this is violated.)
C6_GuardedMetrics ==
  pc = "analyzed" =>
    /\ (transcription.duration <= 0 => metrics.wordsPerMinute = Num(0))
    /\ (metrics.wordCount = 0 => metrics.vocabularyRichness = Num(0))
    /\ IsFinite(metrics.wordsPerMinute)
    /\ IsFinite(metrics.averagePauseDuration)
    /\ IsFinite(metrics.vocabularyRichness)

\* entry lit of the filler vocabulary occurs in text at position i as a
\* whole word or phrase: the characters agree up to case, and the
\* characters before and after the occurrence, if any, are not word
\* characters
OccursWhole(text, lit, i) ==
  /\ i + Len(lit) - 1 <= Len(text)
  /\ \A k \in 1..Len(lit) : LowerChar(text[i + k - 1]) = LowerChar(lit[k])
  /\ (i > 1 => ~IsWordChar(text[i - 1]))
  /\ (i + Len(lit) <= Len(text) => ~IsWordChar(text[i + Len(lit)]))

\* the (entry, position) pairs of the whole-word occurrences in text
WholeOccurrences(text) ==
  {<<k, i>> \in (1..Len(FILLER_WORDS)) \X (1..Len(text)) :
     OccursWhole(text, FILLER_WORDS[k], i)}

\* some entry occurs in text inside a longer word
OccursInsideWord(text) ==
  \E k \in 1..Len(FILLER_WORDS), i \in 1..Len(text) :
    /\ LiteralAtI(text, i, FILLER_WORDS[k])
    /\ ~OccursWhole(text, FILLER_WORDS[k], i)

\* C8: fillerWordCount is the number of case-insensitive whole-word
\* (whole-phrase) occurrences of the filler vocabulary entries in the text:
\* an entry inside a longer word is not counted, every separate occurrence
\* is counted once, and "Well, um, I would say my strength is
\* communication." has at least 2.
C8_WholeWordFillers ==
  pc = "analyzed" =>
    /\ metrics.fillerWordCount = Cardinality(WholeOccurrences(transcription.text))
    /\ (transcription.text = ScenarioA => metrics.fillerWordCount >= 2)

\* the metrics of a text were computed in which an entry occurs as a whole
\* word, more than once, and an entry occurs inside a longer word
C8_Witness ==
  /\ pc = "analyzed"
  /\ metrics.fillerWordCount >= 2
  /\ OccursInsideWord(transcription.text)

(***************************************************************************)
(* calculateClarityScore on two SpeechMetrics that differ only in          *)
(* fillerWordCount (specification SpecFixture)                             *)
(***************************************************************************)
\* the largest fillerWordCount of the first SpeechMetrics
MaxFillers == 10

\* the word counts of the SpeechMetrics compared
WordCounts == {0, 1, 10, 30, 31, 100}

\* the pause lists of the SpeechMetrics compared, in tenths of a second:
\* no pause, short pauses, one long pause, four long pauses
PauseLists == {<< >>, <<5, 20>>, <<25>>, <<25, 30, 21, 40>>}

FixtureMetrics ==
  {[NoMetrics EXCEPT !.wordCount = w, !.fillerWordCount = f, !.pauseDurations = p] :
     w \in WordCounts, f \in 0..MaxFillers, p \in PauseLists}

InitFixture ==
  /\ transcription \in {[text |-> << >>, words |-> w, duration |-> 25] : w \in WordLists}
  /\ metrics \in FixtureMetrics
  /\ pc = "fixture"
  /\ clarityScore = Num(0)
  /\ structureScore = Num(0)
  /\ paceScore = Num(0)
  /\ runs = << >>
  /\ fixture = NoFixture
  /\ AppAtRest

\* calculateClarityScore is applied to the metrics and to the same metrics
\* with a larger fillerWordCount
CompareClarity ==
  /\ pc = "fixture"
  /\ clarityScore' = calculateClarityScore(metrics, transcription)
  /\ \E more \in (metrics.fillerWordCount + 1)..(MaxFillers + 1) :
       LET larger == [metrics EXCEPT !.fillerWordCount = more]
       IN  fixture' = [metrics |-> larger,
                       clarityScore |-> calculateClarityScore(larger, transcription)]
  /\ pc' = "compared"
  /\ UNCHANGED <<transcription, metrics, structureScore, paceScore, runs, appVars, analyzer>>

NextFixture == CompareClarity

SpecFixture == InitFixture /\ [][NextFixture]_vars

\* C7: of two SpeechMetrics that differ only in fillerWordCount (same
\* wordCount, pauseDurations and word confidences), the one with the larger
\* fillerWordCount never gets a higher clarity score.
C7_ClarityMonotone ==
  pc = "compared" =>
    /\ fixture.metrics.fillerWordCount > metrics.fillerWordCount
    /\ fixture.metrics = [metrics EXCEPT !.fillerWordCount = fixture.metrics.fillerWordCount]
    /\ Le(fixture.clarityScore, clarityScore)

\* two such metrics were compared and the one with more filler words got a
\* strictly lower clarity score
C7_Witness ==
  /\ pc = "compared"
  /\ fixture.metrics.fillerWordCount > metrics.fillerWordCount
  /\ Lt(fixture.clarityScore, clarityScore)

(***************************************************************************)
(* The interview session: recorder, analysis, handleRecordingComplete      *)
(* (specification SpecApp)                                                 *)
(***************************************************************************)
InitApp ==
  /\ transcription = [text |-> << >>, words |-> << >>, duration |-> 0]
  /\ pc = "idle"
  /\ metrics = NoMetrics
  /\ clarityScore = Num(0)
  /\ structureScore = Num(0)
  /\ paceScore = Num(0)
  /\ runs = << >>
  /\ fixture = NoFixture
  /\ app \in {[NoApp EXCEPT !.apiKey = key, !.currentView = "session"] :
                key \in BOOLEAN}
  /\ recorder = FreshRecorder
  /\ recordings = << >>
  /\ handlers = << >>
  /\ db = EmptyDb
  /\ analyzer = FreshAnalyzer(TRUE)

\* initializeMedia: getUserMedia resolves and the stream is set
InitializeMedia ==
  /\ recorder.mounted /\ ~recorder.stream
  /\ recorder' = [recorder EXCEPT !.stream = TRUE, !.liveStreams = @ + 1]
  /\ UNCHANGED <<app, recordings, handlers, db, engineVars, analyzer>>

\* startRecording: the onstop handler created here keeps the recordingTime
\* of the render in which the button was pressed; the real-time analysis
\* is started, and when that throws the timer is not set
StartRecording ==
  /\ recorder.mounted /\ recorder.stream /\ ~recorder.isRecording
  /\ Len(recordings) < MaxRecordings
  /\ recordings' = Append(recordings,
                          [captured |-> recorder.recordingTime, phase |-> "recording",
                           elapsed |-> 0, promise |-> "none", audio |-> "none",
                           early |-> FALSE])
  /\ analyzer' = startRealTimeAnalysis(analyzer)
  /\ recorder' = [recorder EXCEPT !.isRecording = TRUE,
                                  !.timer = ~(analyzer.supported /\ StartThrows(analyzer)),
                                  !.current = Len(recordings) + 1,
                                  !.realTimeTranscript = << >>,
                                  !.fillerWordCount = 0]
  /\ UNCHANGED <<app, handlers, db, engineVars>>

\* the interval callback: setRecordingTime
Tick ==
  /\ recorder.timer
  /\ recorder.recordingTime < MaxSeconds
  /\ recorder' = [recorder EXCEPT !.recordingTime = @ + 1]
  /\ UNCHANGED <<app, recordings, handlers, db, engineVars, analyzer>>

\* stopRecording: mediaRecorder.stop() schedules the stop event and the
\* real-time analysis is stopped
StopRecording ==
  /\ recorder.mounted /\ recorder.isRecording
  /\ recordings' = [recordings EXCEPT ![recorder.current].phase = "stopping",
                                      ![recorder.current].elapsed = recorder.recordingTime]
  /\ analyzer' = stopRealTimeAnalysis(analyzer)
  /\ recorder' = [recorder EXCEPT !.isRecording = FALSE, !.timer = FALSE]
  /\ UNCHANGED <<app, handlers, db, engineVars>>

\* Cancel: handleCancelRecording sets the view to the dashboard and the
\* recorder is unmounted
Cancel ==
  /\ recorder.mounted
  /\ app' = [app EXCEPT !.currentView = "dashboard"]
  /\ recorder' = Rendered(app', recorder)
  /\ analyzer' = AnalyzerRendered(analyzer, recorder, recorder')
  /\ UNCHANGED <<recordings, handlers, db, engineVars>>

\* mediaRecorder.onstop up to its await: analyzeAudioBlob is called, and
\* transcribeAudio rejects at once or creates the audio element for the
\* recorded blob and waits
OnStop(n) ==
  /\ recordings[n].phase = "stopping"
  /\ recordings' = [recordings EXCEPT
       ![n].phase = "analyzing",
       ![n].promise = IF analyzer.supported THEN "pending" ELSE "rejected",
       ![n].audio = IF analyzer.supported THEN "loading" ELSE "none"]
  /\ analyzer' = transcribeAudio(analyzer, n)
  /\ UNCHANGED <<app, recorder, handlers, db, engineVars>>

\* the recognition fires its end event after stop(): the onend handler
\* installed resolves the promise of its call of transcribeAudio, whichever
\* session has ended (early: not the one started for the playback of that
\* recording)
RecognitionEnds ==
  /\ analyzer.recognition = "stopping"
  /\ analyzer' = [analyzer EXCEPT !.recognition = "idle", !.results = << >>]
  /\ LET n == analyzer.onend
     IN  recordings' =
           IF n > 0 /\ recordings[n].promise = "pending"
           THEN [recordings EXCEPT ![n].promise = "resolved",
                                   ![n].early = analyzer.playback # n]
           ELSE recordings
  /\ UNCHANGED <<app, recorder, handlers, db, engineVars>>

\* audio.onloadeddata of transcribeAudio for recording n: recognition.start()
\* and audio.play(); when start() throws the audio is not played
AudioLoads(n) ==
  /\ recordings[n].audio = "loading"
  /\ IF StartThrows(analyzer)
     THEN /\ recordings' = [recordings EXCEPT ![n].audio = "not played"]
          /\ UNCHANGED analyzer
     ELSE /\ recordings' = [recordings EXCEPT ![n].audio = "playing"]
          /\ analyzer' = [analyzer EXCEPT !.recognition = "listening",
                                          !.playback = n, !.results = << >>]
  /\ UNCHANGED <<app, recorder, handlers, db, engineVars>>

\* the audio element cannot load the recorded blob: its error event has no
\* handler
AudioFails(n) ==
  /\ recordings[n].audio = "loading"
  /\ recordings' = [recordings EXCEPT ![n].audio = "failed"]
  /\ UNCHANGED <<app, recorder, handlers, db, engineVars, analyzer>>

\* audio.onended: the timeout is set
AudioEnds(n) ==
  /\ recordings[n].audio = "playing"
  /\ recordings' = [recordings EXCEPT ![n].audio = "ended"]
  /\ UNCHANGED <<app, recorder, handlers, db, engineVars, analyzer>>

\* the timeout of audio.onended: recognition.stop()
StopAfterPlayback(n) ==
  /\ recordings[n].audio = "ended"
  /\ recordings' = [recordings EXCEPT ![n].audio = "done"]
  /\ analyzer' = [analyzer EXCEPT !.recognition = IF @ = "listening" THEN "stopping" ELSE @]
  /\ UNCHANGED <<app, recorder, handlers, db, engineVars>>

\* onRecordingComplete(audioBlob, blob, recordingTime, analysis): the
\* handler runs up to its first await (setIsProcessing(true), the insert
\* of the session is sent) and AppContent renders
Complete(n, analysis) ==
  /\ handlers' = Append(handlers, NewRun(n, recordings[n].captured, analysis))
  /\ app' = [app EXCEPT !.isProcessing = TRUE]
  /\ recorder' = Rendered(app', recorder)
  /\ analyzer' = AnalyzerRendered(analyzer, recorder, recorder')

\* analyzeAudioBlob resolves (the transcript promise has resolved and the
\* audio was decoded): the rest of the try block of onstop
AnalysisResolves(n) ==
  /\ recordings[n].phase = "analyzing"
  /\ recordings[n].promise = "resolved"
  /\ recordings' = [recordings EXCEPT ![n].phase = "resolved"]
  /\ \E t \in AppTranscripts, audioMetrics \in AudioMetricsSet :
       Complete(n, [given |-> TRUE,
                    value |-> processTranscription(t, recordings[n].captured,
                                                   audioMetrics)])
  /\ UNCHANGED <<db, engineVars>>

\* analyzeAudioBlob rejects (no speech recognition, a recognition error,
\* or after the transcript the audio cannot be read or decoded): the catch
\* block of onstop
AnalysisRejects(n) ==
  /\ recordings[n].phase = "analyzing"
  /\ recordings[n].promise \in {"rejected", "resolved"}
  /\ recordings' = [recordings EXCEPT ![n].phase = "rejected"]
  /\ Complete(n, [given |-> FALSE, value |-> NoAnalysis])
  /\ UNCHANGED <<db, engineVars>>

\* the call k of handleRecordingComplete has returned with outcome pc: its
\* local values are gone, the counters of what it did remain
Returned(k, outcome) ==
  [handlers EXCEPT ![k] =
     [NewRun(@.recording, @.durationSeconds, [given |-> @.analysis.given, value |-> NoAnalysis])
        EXCEPT !.pc = outcome,
               !.generateFeedbackCalls = handlers[k].generateFeedbackCalls,
               !.apiCalls = handlers[k].apiCalls,
               !.threw = handlers[k].threw]]

\* the catch and finally blocks of handleRecordingComplete
Fail(k) ==
  /\ handlers' = Returned(k, "failed")
  /\ app' = [app EXCEPT !.alerts = @ + 1, !.isProcessing = FALSE]
  /\ recorder' = Rendered(app', recorder)
  /\ analyzer' = AnalyzerRendered(analyzer, recorder, recorder')
  /\ UNCHANGED db

\* the insert into interview_sessions returns; then the feedback is the
\* generator's or the fallback record
InsertSessionSettles(k) ==
  /\ handlers[k].pc = "insertSession"
  /\ \E ok \in BOOLEAN :
       IF ~ok THEN Fail(k)
       ELSE
         /\ db' = [db EXCEPT !.interview_sessions = @ \cup
                     {[id |-> SessionIds[k],
                       duration_seconds |-> handlers[k].durationSeconds,
                       status |-> "processing",
                       transcription |-> IF handlers[k].analysis.given
                                         THEN handlers[k].analysis.value.transcription
                                         ELSE << >>]}]
         /\ IF UsesGenerator(handlers[k].analysis)
            THEN \E order \in Orders :
                   handlers' = [handlers EXCEPT
                     ![k].pc = "generating",
                     ![k].generateFeedbackCalls = @ + 1,
                     ![k].apiCalls = IF app.apiKey THEN @ + 1 ELSE @,
                     ![k].gen = generateFeedbackCall(app.apiKey, Criteria(handlers[k]),
                                                     order, FeedbackIds[k], k)]
            ELSE handlers' = [handlers EXCEPT
                     ![k].pc = "insertFeedback",
                     ![k].aiFeedback = FallbackFeedback(SessionIds[k], FeedbackIds[k], k)]
         /\ UNCHANGED <<app, recorder, analyzer>>
  /\ UNCHANGED <<recordings, engineVars>>

\* the request to the OpenAI API ends and generateFeedback settles
CallOpenAISettles(k) ==
  /\ handlers[k].pc = "generating"
  /\ handlers[k].gen.state = "fetching"
  /\ \E outcome \in ApiOutcomes, order \in Orders :
       handlers' = [handlers EXCEPT
         ![k].threw = Throws(outcome),
         ![k].response = outcome.reply,
         ![k].gen = generateFeedbackSettle(outcome, Criteria(handlers[k]), order,
                                           FeedbackIds[k], k)]
  /\ UNCHANGED <<app, recorder, recordings, db, engineVars, analyzer>>

\* await feedbackGenerator.generateFeedback(...) returns or throws; the
\* session id is set and the insert of the feedback is sent
FeedbackSettles(k) ==
  /\ handlers[k].pc = "generating"
  /\ handlers[k].gen.state \in {"resolved", "rejected"}
  /\ IF handlers[k].gen.state = "rejected" THEN Fail(k)
     ELSE /\ handlers' = [handlers EXCEPT
                ![k].pc = "insertFeedback",
                ![k].aiFeedback = [handlers[k].gen.value EXCEPT
                                     !.session_id = SessionIds[k]]]
          /\ UNCHANGED <<app, recorder, db, analyzer>>
  /\ UNCHANGED <<recordings, engineVars>>

\* the insert into ai_feedback returns
InsertFeedbackSettles(k) ==
  /\ handlers[k].pc = "insertFeedback"
  /\ \E ok \in BOOLEAN :
       IF ok /\ AcceptsFeedback(db, handlers[k].aiFeedback)
       THEN /\ db' = [db EXCEPT !.ai_feedback = @ \cup {handlers[k].aiFeedback}]
            /\ handlers' = [handlers EXCEPT ![k].pc = "updateSession"]
            /\ UNCHANGED <<app, recorder, analyzer>>
       ELSE Fail(k)
  /\ UNCHANGED <<recordings, engineVars>>

\* the update of the session's status returns; its result is not read
UpdateSessionSettles(k) ==
  /\ handlers[k].pc = "updateSession"
  /\ \E ok \in BOOLEAN :
       db' = [db EXCEPT !.interview_sessions =
                {IF ok /\ s.id = SessionIds[k] THEN [s EXCEPT !.status = "completed"]
                 ELSE s : s \in @}]
  /\ handlers' = [handlers EXCEPT ![k].pc = "insertProgress"]
  /\ UNCHANGED <<app, recorder, recordings, engineVars, analyzer>>

\* the insert into progress_metrics returns; its result is not read; the
\* feedback is shown
InsertProgressSettles(k) ==
  /\ handlers[k].pc = "insertProgress"
  /\ \E ok \in BOOLEAN :
       db' = [db EXCEPT !.progress_metrics =
                IF ok /\ IsInteger(handlers[k].aiFeedback.overall_score)
                      /\ handlers[k].aiFeedback.overall_score.n \in 0..100
                THEN @ \cup {[session_id |-> SessionIds[k],
                              average_score |-> handlers[k].aiFeedback.overall_score,
                              sessions_count |-> 1]}
                ELSE @]
  /\ handlers' = Returned(k, "done")
  /\ app' = [app EXCEPT !.isProcessing = FALSE, !.currentView = "feedback",
                        !.shown = k]
  /\ recorder' = Rendered(app', recorder)
  /\ analyzer' = AnalyzerRendered(analyzer, recorder, recorder')
  /\ UNCHANGED <<recordings, engineVars>>

NextApp ==
  \/ InitializeMedia
  \/ StartRecording
  \/ Tick
  \/ StopRecording
  \/ Cancel
  \/ RecognitionEnds
  \/ \E n \in 1..Len(recordings) :
       \/ OnStop(n)
       \/ AudioLoads(n)
       \/ AudioFails(n)
       \/ AudioEnds(n)
       \/ StopAfterPlayback(n)
       \/ AnalysisResolves(n)
       \/ AnalysisRejects(n)
  \/ \E k \in 1..Len(handlers) :
       \/ InsertSessionSettles(k)
       \/ CallOpenAISettles(k)
       \/ FeedbackSettles(k)
       \/ InsertFeedbackSettles(k)
       \/ UpdateSessionSettles(k)
       \/ InsertProgressSettles(k)

SpecApp == InitApp /\ [][NextApp]_vars

(***************************************************************************)
(* Properties of the interview session (specification SpecApp)             *)
(***************************************************************************)
\* the record carries the fixed fallback values
IsFixedFallback(f) ==
  /\ f.overall_score = Num(75)
  /\ f.clarity_score = Num(75)
  /\ f.structure_score = Num(75)
  /\ f.pace_score = Num(75)
  /\ f.filler_word_count = 5
  /\ f.feedback_text = [fixed |-> "Unable to analyze speech. Please ensure microphone permissions are granted and try again."]
  /\ f.strengths = <<"Completed the recording", "Attempted the question">>
  /\ f.improvements = <<"Enable speech analysis for detailed feedback",
                        "Check microphone settings">>

\* the calls of handleRecordingComplete made for recording n
CallsFor(n) == {k \in 1..Len(handlers) : handlers[k].recording = n}

\* C9: when the analysis of a finished recording is rejected, the recorder
\* calls onRecordingComplete exactly once, without a speechAnalysis, and
\* that call of handleRecordingComplete never calls generateFeedback, hands
\* the fixed fallback record (scores 75, fixed text and lists) to the
\* insert into ai_feedback, and has stored it once that insert has
\* returned without error; no other feedback is stored for its session.
C9_FallbackOnFailure ==
  \A n \in 1..Len(recordings) :
    recordings[n].phase = "rejected" =>
      /\ Cardinality(CallsFor(n)) = 1
      /\ \A k \in CallsFor(n) :
           /\ ~handlers[k].analysis.given
           /\ handlers[k].generateFeedbackCalls = 0
           /\ handlers[k].apiCalls = 0
           /\ handlers[k].pc # "generating"
           /\ (handlers[k].pc = "insertFeedback"
                 => IsFixedFallback(handlers[k].aiFeedback))
           /\ \A f \in db.ai_feedback :
                f.session_id = SessionIds[k] => IsFixedFallback(f)
           /\ (handlers[k].pc \in {"updateSession", "insertProgress", "done"}
                 => \E f \in db.ai_feedback : f.session_id = SessionIds[k])

\* an analysis was rejected and the handler has ended with the fallback
\* record stored for its session
C9_Witness ==
  \E n \in 1..Len(recordings), k \in 1..Len(handlers) :
    /\ recordings[n].phase = "rejected"
    /\ handlers[k].recording = n
    /\ handlers[k].pc = "done"
    /\ \E f \in db.ai_feedback :
         f.session_id = SessionIds[k] /\ IsFixedFallback(f)

\* value is the mock feedback of the criteria: its scores are those of the
\* generator's three calculators, the overall score is their mean rounded,
\* the filler count and the confidence named in the text are those of the
\* speech analysis, and both lists have three or four entries
IsMockOf(value, criteria) ==
  LET c == AIFeedbackGenerator_calculateClarityScore(criteria.speechAnalysis,
                                                     criteria.transcription)
      s == AIFeedbackGenerator_calculateStructureScore(criteria.transcription,
                                                       criteria.duration)
      p == AIFeedbackGenerator_calculatePaceScore(criteria.speechAnalysis)
  IN  /\ value.clarity_score = c
      /\ value.structure_score = s
      /\ value.pace_score = p
      /\ (IsInteger(c) /\ IsInteger(s) /\ IsInteger(p) =>
            /\ IsInteger(value.overall_score)
            /\ 2 * (c.n + s.n + p.n) - 3 < 6 * value.overall_score.n
            /\ 6 * value.overall_score.n <= 2 * (c.n + s.n + p.n) + 3)
      /\ value.filler_word_count = criteria.speechAnalysis.fillerWordCount
      /\ DOMAIN value.feedback_text = {"opening", "pace", "confidence"}
      /\ value.feedback_text.confidence = criteria.speechAnalysis.confidenceScore
      /\ Len(value.strengths) \in 3..4
      /\ Len(value.improvements) \in 3..4

\* C10: generateFeedback never rejects; without an API key it makes no call
\* of the OpenAI API and resolves with the mock feedback; when the call or
\* the parsing of its reply throws it resolves with the mock feedback
\* computed from the speech analysis.
C10_NeverRejects ==
  \A k \in 1..Len(handlers) :
    /\ handlers[k].gen.state # "rejected"
    /\ (~app.apiKey => handlers[k].apiCalls = 0)
    /\ (/\ handlers[k].pc = "generating"
        /\ handlers[k].gen.state # "fetching"
        /\ (~app.apiKey \/ handlers[k].threw))
         => /\ handlers[k].gen.state = "resolved"
            /\ IsMockOf(handlers[k].gen.value, Criteria(handlers[k]))

\* with an API key, the call of the API or the parsing of its reply threw
\* and generateFeedback has settled
C10_Witness ==
  \E k \in 1..Len(handlers) :
    /\ app.apiKey
    /\ handlers[k].apiCalls = 1
    /\ handlers[k].threw
    /\ handlers[k].pc = "generating"
    /\ handlers[k].gen.state = "resolved"

(***************************************************************************)
(* Properties of analyzeResponseContent (specification Spec)               *)
(***************************************************************************)
\* the candidate strings of analyzeResponseContent, by signal
LengthStrength == "Provided a well-balanced response length"
TooBrief == "Expand your answers with more details and examples"
TooVerbose == "Try to be more concise and focus on key points"
ExamplesStrength == "Included concrete examples to support your points"
ExamplesImprovement == "Add specific examples from your experience"
StructureStrength == "Used a structured approach to organize your response"
StructureImprovement ==
  "Use frameworks like STAR (Situation, Task, Action, Result) for better structure"
ConfidenceStrength == "Demonstrated confidence in your abilities"
HedgingImprovement == "Use more confident language and reduce hedging words"
NumbersStrength == "Provided quantifiable results and metrics"
NumbersImprovement == "Include specific numbers and measurable outcomes when possible"

\* the number of entries of list q equal to s
Count(q, s) == Cardinality({i \in 1..Len(q) : q[i] = s})
Has(q, s) == Count(q, s) > 0

\* the text holds the phrase lit as whole words, in any letter case
ContainsPhrase(text, lit) == \E i \in 1..Len(text) : OccursWhole(text, lit, i)

\* the text holds "for example", "first", later "then", later "finally",
\* and "85 percent"
IsScenarioD(text) ==
  /\ ContainsPhrase(text, <<"f", "o", "r", " ", "e", "x", "a", "m", "p", "l", "e">>)
  /\ ContainsPhrase(text, <<"8", "5", " ", "p", "e", "r", "c", "e", "n", "t">>)
  /\ LET At(lit) == {i \in 1..Len(text) : OccursWhole(text, lit, i)}
         first == At(<<"f", "i", "r", "s", "t">>)
         then == At(<<"t", "h", "e", "n">>)
         finally == At(<<"f", "i", "n", "a", "l", "l", "y">>)
     IN  \E i \in first : \E j \in then : \E k \in finally : i < j /\ j < k

\* C11: for every input the contentScore of analyzeResponseContent is
\* 70 + 10 (50 <= wordCount <= 300) + 10 (examples) + 10 (structure markers)
\* + 5 (confident and not hedging) + 5 (quantified) - 10 (vocabularyRichness
\* < 0.4), clamped to [0,100], each detected signal being the one whose
\* strength is in the list; and for a transcript that holds "for example",
\* "first ... then ... finally" and "85 percent" with vocabularyRichness >=
\* 0.4 the three strengths are there and contentScore >= 90.
C11_ContentScore ==
  pc = "done" =>
    LET ca == analyzeResponseContent(Question, transcription, metrics)
        sum == 70
          + (IF metrics.wordCount >= 50 /\ metrics.wordCount <= 300 THEN 10 ELSE 0)
          + (IF Has(ca.strengths, ExamplesStrength) THEN 10 ELSE 0)
          + (IF Has(ca.strengths, StructureStrength) THEN 10 ELSE 0)
          + (IF Has(ca.strengths, ConfidenceStrength) THEN 5 ELSE 0)
          + (IF Has(ca.strengths, NumbersStrength) THEN 5 ELSE 0)
          - (IF Lt(metrics.vocabularyRichness, Frac(4, 10)) THEN 10 ELSE 0)
        clamped == IF sum > 100 THEN 100 ELSE IF sum < 0 THEN 0 ELSE sum
    IN  /\ ca.contentScore = Num(clamped)
        /\ Has(ca.strengths, LengthStrength)
             <=> (metrics.wordCount >= 50 /\ metrics.wordCount <= 300)
        /\ (IsScenarioD(transcription.text)
              /\ Ge(metrics.vocabularyRichness, Frac(4, 10))) =>
             /\ Has(ca.strengths, ExamplesStrength)
             /\ Has(ca.strengths, StructureStrength)
             /\ Has(ca.strengths, NumbersStrength)
             /\ Ge(ca.contentScore, Num(90))

\* the pipeline has run on a transcript with the three phrases and a
\* vocabularyRichness of at least 0.4, and its contentScore is at least 90
C11_Witness ==
  /\ pc = "done"
  /\ IsScenarioD(transcription.text)
  /\ Ge(metrics.vocabularyRichness, Frac(4, 10))
  /\ Ge(ContentScore, Num(90))

\* the text holds one of the phrases of the list as whole words, in any
\* letter case
ContainsSome(text, phrases) ==
  \E k \in 1..Len(phrases) : ContainsPhrase(text, phrases[k])

\* C19: a transcript that holds "I will", "I can", "I have" or "I am
\* confident" in any letter case counts as confident language (without a
\* hedging phrase it gets the strength for confidence), and one that holds
\* "I think" or "I guess" in any letter case counts as hedging language (it
\* gets the improvement for hedging).
\* (The text is lower-cased and the patterns keep their capital I, so this
\* is violated.)
C19_PhrasesInAnyCase ==
  pc = "done" =>
    LET ca == analyzeResponseContent(Question, transcription, metrics)
        text == transcription.text
    IN  /\ ContainsSome(text, SubSeq(HedgingPhrases, 4, 5)) =>
             Has(ca.improvements, HedgingImprovement)
        /\ (ContainsSome(text, SubSeq(ConfidencePhrases, 1, 4))
              /\ ~ContainsSome(text, HedgingPhrases)) =>
             Has(ca.strengths, ConfidenceStrength)

\* the candidates that analyzeResponseContent added for a signal group:
\* how many of the group's strings are in its lists
Candidates(ca, strengths, improvements) ==
  LET Occurrences(q, S) == Cardinality({i \in 1..Len(q) : q[i] \in S})
  IN  Occurrences(ca.strengths, strengths) + Occurrences(ca.improvements, improvements)

\* C20 as stated: for each of the five signal groups and every transcript,
\* analyzeResponseContent adds exactly one candidate, the group's strength
\* or the group's improvement.
C20_ExactlyOne ==
  pc = "done" =>
    LET ca == analyzeResponseContent(Question, transcription, metrics)
    IN  /\ Candidates(ca, {LengthStrength}, {TooBrief, TooVerbose}) = 1
        /\ Candidates(ca, {ExamplesStrength}, {ExamplesImprovement}) = 1
        /\ Candidates(ca, {StructureStrength}, {StructureImprovement}) = 1
        /\ Candidates(ca, {ConfidenceStrength}, {HedgingImprovement}) = 1
        /\ Candidates(ca, {NumbersStrength}, {NumbersImprovement}) = 1

\* C20, amended: for appropriate length, examples, structure markers and
\* quantified results analyzeResponseContent adds exactly one candidate,
\* the strength or the improvement; for confident/hedging language it adds
\* at most one, and none exactly when its patterns find neither a confident
\* nor a hedging phrase.
C20_AtMostOneForConfidence ==
  pc = "done" =>
    LET ca == analyzeResponseContent(Question, transcription, metrics)
        text == toLowerCase(transcription.text)
        confidence == Candidates(ca, {ConfidenceStrength}, {HedgingImprovement})
    IN  /\ Candidates(ca, {LengthStrength}, {TooBrief, TooVerbose}) = 1
        /\ Candidates(ca, {ExamplesStrength}, {ExamplesImprovement}) = 1
        /\ Candidates(ca, {StructureStrength}, {StructureImprovement}) = 1
        /\ Candidates(ca, {NumbersStrength}, {NumbersImprovement}) = 1
        /\ confidence <= 1
        /\ confidence = 0 <=>
             (~TestWords(text, ConfidencePhrases) /\ ~TestWords(text, HedgingPhrases))

\* the pipeline has run on a non-empty transcript for which the examples
\* group added one candidate and the confidence group none
C20_Witness ==
  /\ pc = "done"
  /\ LET ca == analyzeResponseContent(Question, transcription, metrics)
     IN  /\ Candidates(ca, {ConfidenceStrength}, {HedgingImprovement}) = 0
         /\ Candidates(ca, {ExamplesStrength}, {ExamplesImprovement}) = 1
         /\ Len(transcription.text) > 0

(***************************************************************************)
(* The three score calculators on given SpeechMetrics (specification       *)
(* SpecScores)                                                             *)
(***************************************************************************)
\* pauseDurations.reduce((a, b) => a + b, 0) / pauseDurations.length, or 0
AveragePause(pauseDurations) ==
  IF Len(pauseDurations) > 0
  THEN Frac(SumSeq(pauseDurations), 10 * Len(pauseDurations))
  ELSE Num(0)

\* n pauses of 0.2 s
ShortPauses(n) == [i \in 1..n |-> 2]

\* pause lists with an average of 0.5 s: none, one, two and three of the
\* pauses longer than 2 s
ScenarioBPauses ==
  {<<5>>, <<4, 6>>, <<23>> \o ShortPauses(6), <<22, 21>> \o ShortPauses(11),
   <<21, 21, 21>> \o ShortPauses(16)}

\* 40 words in 15 s without filler words: 160 words per minute, 26 of the
\* words distinct and longer than two letters
ScenarioB ==
  [NoMetrics EXCEPT !.wordsPerMinute = Num(160), !.wordCount = 40,
                    !.uniqueWordCount = 26, !.vocabularyRichness = Frac(65, 100),
                    !.sentenceCount = 3, !.pauseDurations = <<5>>,
                    !.averagePauseDuration = Frac(5, 10)]

\* the metrics given to calculateClarityScore
ClarityFixtures ==
  {[ScenarioB EXCEPT !.fillerWordCount = f, !.wordCount = w, !.pauseDurations = p,
                     !.averagePauseDuration = AveragePause(p)] :
     f \in 0..MaxFillers, w \in {0, 40, 99, 100, 101},
     p \in PauseLists \cup ScenarioBPauses}

\* the speaking rates given to calculatePaceScore: words per minute around
\* every threshold, and what a duration of 0 or below gives
PaceRates ==
  {NaN, Infinity, Num(-12)}
  \cup {Num(n) : n \in {0, 99, 100, 119, 120, 130, 160, 170, 179, 180, 181, 200, 201, 250}}

\* the average pauses given to calculatePaceScore, in seconds
AveragePauses ==
  {Num(0), Frac(15, 100), Frac(2, 10), Frac(5, 10), Frac(15, 10), Frac(16, 10), Num(3)}

PaceFixtures ==
  {[ScenarioB EXCEPT !.wordsPerMinute = wpm, !.averagePauseDuration = pause] :
     wpm \in PaceRates, pause \in AveragePauses}

\* (wordCount, sentenceCount) and the vocabulary richness given to
\* calculateStructureScore
SentenceShapes ==
  {<<0, 0>>, <<5, 0>>, <<9, 1>>, <<10, 1>>, <<30, 1>>, <<31, 1>>, <<60, 2>>,
   <<29, 3>>, <<30, 3>>, <<45, 3>>, <<90, 3>>, <<91, 3>>, <<100, 5>>}

Richnesses ==
  {NaN, Num(0), Frac(39, 100), Frac(4, 10), Frac(65, 100), Frac(7, 10),
   Frac(71, 100), Num(1)}

StructureFixtures ==
  {[ScenarioB EXCEPT !.wordCount = shape[1], !.sentenceCount = shape[2],
                     !.vocabularyRichness = r] :
     shape \in SentenceShapes, r \in Richnesses}

InitScores ==
  /\ \E w \in WordLists, m \in ClarityFixtures \cup PaceFixtures \cup StructureFixtures :
       /\ (m \notin ClarityFixtures => w = PacedWords)
       /\ transcription = [text |-> << >>, words |-> w, duration |-> 15]
       /\ metrics = m
  /\ pc = "analyzed"
  /\ clarityScore = Num(0)
  /\ structureScore = Num(0)
  /\ paceScore = Num(0)
  /\ runs = << >>
  /\ fixture = NoFixture
  /\ AppAtRest

NextScores ==
  \/ CalculateClarityScore
  \/ CalculateStructureScore
  \/ CalculatePaceScore

SpecScores == InitScores /\ [][NextScores]_vars

\* the metrics of Scenario B: no filler word, 160 words per minute, an
\* average pause of 0.5 s and a vocabulary richness of 0.65
IsScenarioB(m) ==
  /\ m.fillerWordCount = 0
  /\ m.wordsPerMinute = Num(160)
  /\ m.averagePauseDuration = Frac(5, 10)
  /\ m.vocabularyRichness = Frac(65, 100)

\* the mean confidence of the word records is at least h hundredths (or
\* there is no word record)
MeanConfidenceAtLeast(words, h) ==
  SumSeq([i \in 1..Len(words) |-> words[i].confidence]) >= h * Len(words)

\* the number of pauses longer than 2 s
LongPauses(m) == Cardinality({i \in 1..Len(m.pauseDurations) : m.pauseDurations[i] > 20})

\* C12 as stated: for metrics with fillerWordCount = 0, wordsPerMinute =
\* 160, averagePauseDuration = 0.5 and vocabularyRichness = 0.65, the
\* clarity score and the pace score are both at least 90, whatever the word
\* records and the pauses behind the average are.
C12_ScenarioB ==
  (pc = "pace" /\ IsScenarioB(metrics)) =>
    Ge(clarityScore, Num(90)) /\ Ge(paceScore, Num(90))

\* C12, amended: for those metrics the pace score is at least 90, and the
\* clarity score is at least 90 when the mean confidence of the word
\* records is at least 0.9 and at most two pauses are longer than 2 s.
C12_ScenarioBConfident ==
  (pc = "pace" /\ IsScenarioB(metrics)) =>
    /\ Ge(paceScore, Num(90))
    /\ (MeanConfidenceAtLeast(transcription.words, 90) /\ LongPauses(metrics) <= 2) =>
         Ge(clarityScore, Num(90))

\* the scores of Scenario B's metrics with confidently recognised words and
\* two pauses longer than 2 s
C12_Witness ==
  /\ pc = "pace"
  /\ IsScenarioB(metrics)
  /\ Len(transcription.words) > 0
  /\ MeanConfidenceAtLeast(transcription.words, 90)
  /\ LongPauses(metrics) = 2
  /\ clarityScore = Num(90)
  /\ paceScore = Num(100)

\* C13: whenever fillerWordCount / wordCount is at least 0.10, the clarity
\* score is strictly below 70, whatever the word confidences and the pauses.
\* (With confident words and no long pause the score is exactly 70, so this
\* is violated.)
C13_ClarityBelow70 ==
  (/\ pc = "pace"
   /\ metrics.wordCount > 0
   /\ 10 * metrics.fillerWordCount >= metrics.wordCount) =>
    Lt(clarityScore, Num(70))

\* what the pace score loses for the speaking rate, with the band of 15
\* points starting at 180 words per minute or just above
RatePenalty(wpm, from180) ==
  IF Lt(wpm, Num(100)) THEN 25
  ELSE IF Le(wpm, Num(119)) THEN 10
  ELSE IF Gt(wpm, Num(200)) THEN 30
  ELSE IF Gt(wpm, Num(180)) \/ (from180 /\ Eq(wpm, Num(180))) THEN 15
  ELSE 0

\* what the pace score loses for the average pause
PausePenalty(pause) ==
  IF Gt(pause, Frac(15, 10)) THEN 15
  ELSE IF Lt(pause, Frac(2, 10)) THEN 10
  ELSE 0

\* n clamped to [0,100]
Clamped(n) == IF n < 0 THEN 0 ELSE IF n > 100 THEN 100 ELSE n

\* C17 as stated: the pace score is 100, minus 25 for WPM < 100, 10 for
\* 100 <= WPM <= 119, 15 for 180 <= WPM <= 200, 30 for WPM > 200, minus 15
\* for an average pause > 1.5 s or 10 for one < 0.2 s, clamped to [0,100].
C17_PaceTable ==
  pc = "pace" =>
    paceScore = Num(Clamped(100 - RatePenalty(metrics.wordsPerMinute, TRUE)
                                - PausePenalty(metrics.averagePauseDuration)))

\* C17, amended: the same with the 15 points taken for 180 < WPM <= 200
\* (nothing at exactly 180).
C17_PaceTableAbove180 ==
  pc = "pace" =>
    paceScore = Num(Clamped(100 - RatePenalty(metrics.wordsPerMinute, FALSE)
                                - PausePenalty(metrics.averagePauseDuration)))

\* a rate of 181 words per minute with long pauses was scored 70
C17_Witness ==
  /\ pc = "pace"
  /\ metrics.wordsPerMinute = Num(181)
  /\ Gt(metrics.averagePauseDuration, Frac(15, 10))
  /\ paceScore = Num(70)

\* what the structure score is by the rules: wordCount / sentenceCount is
\* compared through products, and without a sentence it is above 30 for a
\* positive wordCount and neither below 10 nor above 30 for wordCount = 0
StructureTable(m) ==
  100
  - (IF m.sentenceCount > 0 /\ m.wordCount < 10 * m.sentenceCount THEN 15
     ELSE IF \/ m.sentenceCount > 0 /\ m.wordCount > 30 * m.sentenceCount
             \/ m.sentenceCount = 0 /\ m.wordCount > 0 THEN 20
     ELSE 0)
  - (IF Lt(m.vocabularyRichness, Frac(4, 10)) THEN 15 ELSE 0)
  + (IF Gt(m.vocabularyRichness, Frac(7, 10)) THEN 10 ELSE 0)
  - (IF m.sentenceCount < 3 THEN 20 ELSE 0)

Hearing(a) ==
  LET started == {s \in 1..Len(a.sessions) : a.sessions[s].loop}
  IN  CHOOSE s \in started : \A t \in started : t <= s

\* the recognition fires a result event: the last result is revised or
\* becomes final, or a new result is appended; event.resultIndex is the
\* index of that result.  After stop() only the pending result is returned,
\* as final.  The handler installed is called.
RecognitionResult ==
  /\ analyzer.recognition \in {"listening", "stopping"}
  /\ analyzer.events < MaxResults
  /\ \E f \in Fragments, isFinal \in BOOLEAN :
       LET last == Len(analyzer.results)
           pending == last > 0 /\ ~analyzer.results[last].isFinal
           results ==
             IF pending
             THEN [analyzer.results EXCEPT
                     ![last].transcript = IF isFinal THEN @ ELSE @ \o f,
                     ![last].isFinal = isFinal]
             ELSE Append(analyzer.results,
                         [transcript |-> f, isFinal |-> isFinal,
                          session |-> Hearing(analyzer)])
           resultIndex == IF pending THEN last ELSE last + 1
           h == analyzer.handler
           update == onresult(results, resultIndex)
       IN  /\ analyzer.recognition = "stopping" => (pending /\ isFinal)
           /\ analyzer' =
                [analyzer EXCEPT
                   !.results = results,
                   !.events = @ + 1,
                   !.updates =
                     IF h > 0
                     THEN Append(@, [session |-> h, update |-> update,
                                     heard |-> {results[i].session :
                                                  i \in resultIndex..Len(results)},
                                     late |-> analyzer.sessions[h].stopped])
                     ELSE @]
           /\ recorder' = IF h > 0 THEN OnUpdate(recorder, update) ELSE recorder
  /\ UNCHANGED <<app, recordings, handlers, db, engineVars>>

\* the animation frame callback of analyzeVolumeRealTime: analyze() reads
\* the volume and requests the next frame
Frame(s) ==
  /\ analyzer.sessions[s].loop
  /\ analyzer.sessions[s].frames < MaxFrames
  /\ analyzer' = [analyzer EXCEPT
       !.sessions[s].frames = @ + 1,
       !.sessions[s].lateFrames = IF analyzer.sessions[s].stopped THEN @ + 1 ELSE @]
  /\ UNCHANGED <<app, recorder, recordings, handlers, db, engineVars>>

InitRealTime ==
  /\ transcription = [text |-> << >>, words |-> << >>, duration |-> 0]
  /\ pc = "idle"
  /\ metrics = NoMetrics
  /\ clarityScore = Num(0)
  /\ structureScore = Num(0)
  /\ paceScore = Num(0)
  /\ runs = << >>
  /\ fixture = NoFixture
  /\ app = [NoApp EXCEPT !.currentView = "session"]
  /\ recorder = FreshRecorder
  /\ recordings = << >>
  /\ handlers = << >>
  /\ db = EmptyDb
  /\ analyzer \in {FreshAnalyzer(supported) : supported \in BOOLEAN}

NextRealTime ==
  \/ InitializeMedia
  \/ StartRecording
  \/ Tick
  \/ RecognitionResult
  \/ RecognitionEnds
  \/ \E s \in 1..Len(analyzer.sessions) : Frame(s)
  \/ StopRecording
  \/ \E n \in 1..Len(recordings) :
       \/ OnStop(n)
       \/ AudioLoads(n)
       \/ AudioFails(n)
       \/ AudioEnds(n)
       \/ StopAfterPlayback(n)
       \/ AnalysisResolves(n)
       \/ AnalysisRejects(n)

SpecRealTime == InitRealTime /\ [][NextRealTime]_vars

(***************************************************************************)
(* Properties of the real-time analysis (specification SpecRealTime)       *)
(***************************************************************************)
\* p is a prefix of q
IsPrefix(p, q) == Len(p) <= Len(q) /\ SubSeq(q, 1, Len(p)) = p

\* the number of whole-word occurrences of the analyzer's filler words in
\* text, in any letter case
FillerOccurrences(text) ==
  Cardinality({<<k, i>> \in (1..Len(SpeechAnalyzer_FILLER_WORDS)) \X (1..Len(text)) :
                 OccursWhole(text, SpeechAnalyzer_FILLER_WORDS[k], i)})

\* C14: during one recording every update carries the growing transcript:
\* its transcription has the transcription of each earlier update of the
\* same session as a prefix, and its fillerWordCount is the filler count of
\* that transcription.
\* (The update is built from event.resultIndex on, so a new result after a
\* final one replaces the text: this is violated.)
C14_GrowingTranscript ==
  \A i \in 1..Len(analyzer.updates) :
    LET u == analyzer.updates[i]
    IN  /\ u.update.fillerWordCount = FillerOccurrences(u.update.transcription)
        /\ \A j \in 1..(i - 1) :
             analyzer.updates[j].session = u.session =>
               IsPrefix(analyzer.updates[j].update.transcription,
                        u.update.transcription)

\* C15: the updates of the real-time analysis carry the transcript text and
\* the filler-word count and nothing else, and a speech analysis with its
\* confidenceScore exists for a recording (handleRecordingComplete was
\* called with it) only after that recording was stopped and
\* analyzeAudioBlob has returned for it; while a recording is in progress,
\* stopping or under analysis no call of handleRecordingComplete was made
\* for it.
C15_NoScoreWhileRecording ==
  /\ \A i \in 1..Len(analyzer.updates) :
       DOMAIN analyzer.updates[i].update = {"transcription", "fillerWordCount"}
  /\ \A k \in 1..Len(handlers) :
       handlers[k].analysis.given =>
         recordings[handlers[k].recording].phase = "resolved"
  /\ \A n \in 1..Len(recordings) :
       recordings[n].phase \in {"recording", "stopping", "analyzing"} =>
         CallsFor(n) = {}

\* updates were delivered while the recording was in progress, and after
\* the stop the analysis of the recording has produced a confidenceScore
C15_Witness ==
  /\ \E i \in 1..Len(analyzer.updates) : ~analyzer.updates[i].late
  /\ \E k \in 1..Len(handlers) :
       /\ handlers[k].analysis.given
       /\ IsInteger(handlers[k].analysis.value.confidenceScore)

\* C16: after stopRealTimeAnalysis the stopped session is quiescent: no
\* update is delivered to its onUpdate, its volume loop analyses no frame
\* that requests another one, and the updates of a later session are built
\* only from results heard in that session.
\* (No animation frame is cancelled and no handler removed: this is
\* violated.)
C16_QuiescentAfterStop ==
  /\ \A s \in 1..Len(analyzer.sessions) :
       analyzer.sessions[s].stopped => analyzer.sessions[s].lateFrames = 0
  /\ \A i \in 1..Len(analyzer.updates) :
       /\ ~analyzer.updates[i].late
       /\ analyzer.updates[i].heard \subseteq {analyzer.updates[i].session}

(***************************************************************************)
(* Properties of the lists of generateAIFeedback (specification Spec)      *)
(***************************************************************************)
\* the strengths in the order of their detection: those of the content
\* analysis, then those derived from the metrics
StrengthsInOrder ==
  <<LengthStrength, ExamplesStrength, StructureStrength, ConfidenceStrength,
    NumbersStrength,
    "Maintained an ideal speaking pace throughout your response",
    "Spoke clearly with minimal filler words",
    "Demonstrated strong vocabulary and varied word choice",
    "Used pauses effectively for emphasis and clarity">>

\* the improvements in the order of their detection
ImprovementsInOrder ==
  <<TooBrief, TooVerbose, ExamplesImprovement, StructureImprovement,
    HedgingImprovement, NumbersImprovement,
    "Expand your vocabulary to avoid repetitive language",
    "Significantly reduce filler words like \"um,\" \"uh,\" and \"like\"",
    "Reduce long pauses to maintain engagement and flow",
    "Increase your speaking pace to sound more confident",
    "Develop your answers with multiple well-structured sentences">>

\* the position of s in the order (0 when it is not a candidate)
Rank(order, s) ==
  IF \E k \in 1..Len(order) : order[k] = s
  THEN CHOOSE k \in 1..Len(order) : order[k] = s
  ELSE 0

\* list holds, in the order of detection and without a repetition, the
\* first four of the detected candidates
FirstFourOf(list, detected, order) ==
  /\ Len(list) <= 4
  /\ \A i \in 1..Len(list) : Has(detected, list[i]) /\ Rank(order, list[i]) > 0
  /\ \A i, j \in 1..Len(list) : i < j => Rank(order, list[i]) < Rank(order, list[j])
  /\ \A k \in 1..Len(detected) :
       \/ Has(list, detected[k])
       \/ Len(list) = 4 /\ Rank(order, detected[k]) > Rank(order, list[4])

\* no string occurs twice in the list
NoRepetition(list) == \A i, j \in 1..Len(list) : list[i] = list[j] => i = j

\* C21: the strengths (and the improvements) of generateAIFeedback hold the
\* candidates of the content analysis first and those derived from the
\* metrics after them, each in detection order, cut to the first four, and
\* no string occurs twice in a list.
C21_OrderedFirstFour ==
  pc = "done" =>
    LET ca == analyzeResponseContent(Question, transcription, metrics)
        df == generateDetailedFeedback(metrics)
        strengths == ca.strengths \o df.additionalStrengths
        improvements == ca.improvements \o df.additionalImprovements
    IN  /\ NoRepetition(LastFeedback.strengths)
        /\ NoRepetition(LastFeedback.improvements)
        /\ strengths # << >> =>
             FirstFourOf(LastFeedback.strengths, strengths, StrengthsInOrder)
        /\ improvements # << >> =>
             FirstFourOf(LastFeedback.improvements, improvements, ImprovementsInOrder)

\* a run ended with more than four detected strengths, candidates of the
\* content analysis and of the metrics among them: the list was cut
C21_Witness ==
  /\ pc = "done"
  /\ LET ca == analyzeResponseContent(Question, transcription, metrics)
         df == generateDetailedFeedback(metrics)
     IN  /\ Len(ca.strengths) \in 1..3
         /\ Len(ca.strengths) + Len(df.additionalStrengths) > 4
         /\ Len(ca.improvements) > 0
         /\ Len(df.additionalImprovements) > 0

(***************************************************************************)
(* Properties of the stored feedback (specification SpecApp)               *)
(***************************************************************************)
\* C22: when generateContextualFeedback has fewer than 3 strengths (or
\* improvements) it pads the list with the entries of its pool in pool
\* order: the lists of every mock feedback are those that the criteria give
\* with the pool taken first entry first, so identical criteria give
\* identical lists.
\* (The entries are drawn with Math.random(), so this is violated.)
C22_PoolOrderPadding ==
  \A k \in 1..Len(handlers) :
    (handlers[k].gen.state = "resolved" /\ (~app.apiKey \/ handlers[k].threw)) =>
      LET inPoolOrder ==
            generateEnhancedMockFeedback(Criteria(handlers[k]), <<1, 2, 3, 4>>,
                                         FeedbackIds[k], k)
      IN  /\ handlers[k].gen.value.strengths = inPoolOrder.strengths
          /\ handlers[k].gen.value.improvements = inPoolOrder.improvements

\* x clamped to [0,100]
ClampedTo100(x) == IF Lt(x, Num(0)) THEN Num(0) ELSE IF Gt(x, Num(100)) THEN Num(100) ELSE x

\* C29: each of overall_score, clarity_score, structure_score and
\* pace_score that parseFeedbackResponse returns is the score of the reply
\* clamped to [0,100] (0 stays 0), and 75 only when the reply has no such
\* score.
\* (response.x || 75 replaces a score of 0 by 75, so this is violated.)
C29_ReplyScoresClamped ==
  \A k \in 1..Len(handlers) :
    (handlers[k].gen.state = "resolved" /\ handlers[k].apiCalls = 1
       /\ ~handlers[k].threw) =>
      \A field \in {"overall_score", "clarity_score", "structure_score", "pace_score"} :
        handlers[k].gen.value[field] =
          IF field \in handlers[k].response.has
          THEN ClampedTo100(handlers[k].response[field])
          ELSE Num(75)

\* C26: the durationSeconds that the recorder passes to onRecordingComplete
\* is the recording time that the timer had reached when the recording was
\* stopped.
\* (The onstop handler reads the recordingTime of the render in which
\* startRecording was called, so this is violated.)
C26_DurationIsElapsed ==
  \A k \in 1..Len(handlers) :
    handlers[k].durationSeconds = recordings[handlers[k].recording].elapsed

\* C27: once the recorder is unmounted after its media stream was acquired,
\* every track of the stream is stopped and the recording timer is cleared:
\* while no recorder is mounted no stream is live and no timer runs.
\* (The cleanup tests the stream of the first render, which is null, so
\* this is violated.)
C27_NothingLiveAfterUnmount ==
  ~recorder.mounted => (recorder.liveStreams = 0 /\ ~recorder.timer)

\* C24: the transcript promise of transcribeAudio resolves only when the
\* recognition session started for the playback of its recording has
\* ended; the end event of the real-time session that stopRealTimeAnalysis
\* stopped never resolves it.
\* (onend is installed on the shared recognition while the real-time
\* session is still stopping, so this is violated.)
C24_ResolvedByPlaybackOnly ==
  \A n \in 1..Len(recordings) :
    recordings[n].promise = "resolved" => ~recordings[n].early

(***************************************************************************)
(* The interview session with every event that is due delivered            *)
(* (specification SpecAppFair)                                             *)
(***************************************************************************)
\* the stop event of a stopped MediaRecorder, the end event of a stopped
\* recognition, the loadeddata or error event of a created audio element,
\* the ended event of a played audio, its timeout, and the continuation of
\* a settled analysis are eventually delivered
\* the continuation of onstop after analyzeAudioBlob has settled, whatever
\* analysis it passes on
OnStopContinues(n) ==
  /\ recordings[n].phase = "analyzing"
  /\ recordings[n].promise \in {"rejected", "resolved"}
  /\ \E phase \in {"resolved", "rejected"} :
       recordings' = [recordings EXCEPT ![n].phase = phase]

Delivered ==
  \/ RecognitionEnds
  \/ \E n \in 1..Len(recordings) :
       \/ OnStop(n)
       \/ AudioLoads(n)
       \/ AudioFails(n)
       \/ AudioEnds(n)
       \/ StopAfterPlayback(n)

SpecAppFair ==
  /\ SpecApp
  /\ WF_vars(Delivered)
  /\ WF_recordings(\E n \in 1..Len(recordings) : OnStopContinues(n))

\* C23: after Stop & Submit on an active recording the recorder eventually
\* calls onRecordingComplete for that recording, and it never calls it
\* twice, in whatever order the stop event of the recorder, the events of
\* the recognition and the events of the audio playback are delivered.
\* (When the recognition has ended before onstop runs and the audio element
\* does not load the blob, the transcript promise never settles, so this is
\* violated.)
C23_EventuallyOneCall ==
  /\ [](\A n \in 1..Len(recordings) : Cardinality(CallsFor(n)) <= 1)
  /\ \A n \in 1..MaxRecordings :
       (n <= Len(recordings) /\ recordings[n].phase = "stopping")
         ~> (Cardinality(CallsFor(n)) = 1)

(***************************************************************************)
(* handleRecordingComplete of the App variant that calls the batch engine, *)
(* with its database requests (specification SpecStore)                    *)
(***************************************************************************)
\* handleRecordingComplete was called: setIsProcessing(true), and the
\* insert of the session is sent; transcription is what Step 1 will return
InitStore ==
  /\ transcription \in Transcriptions
  /\ pc = "insertSession"
  /\ metrics = NoMetrics
  /\ clarityScore = Num(0)
  /\ structureScore = Num(0)
  /\ paceScore = Num(0)
  /\ runs = << >>
  /\ fixture = NoFixture
  /\ app = [NoApp EXCEPT !.isProcessing = TRUE, !.currentView = "session"]
  /\ recorder = Rendered(app, FreshRecorder)
  /\ recordings = << >>
  /\ handlers = << >>
  /\ db = EmptyDb
  /\ analyzer = FreshAnalyzer(TRUE)

\* catch (error) { alert(...) } finally { setIsProcessing(false) }
StoreFails ==
  /\ pc' = "failed"
  /\ app' = [app EXCEPT !.alerts = @ + 1, !.isProcessing = FALSE]

\* the insert into interview_sessions returns; if (sessionError) throw
StoreSession ==
  /\ pc = "insertSession"
  /\ \E ok \in BOOLEAN :
       IF ok
       THEN /\ db' = [db EXCEPT !.interview_sessions = @ \cup
                        {[id |-> "session",
                          duration_seconds |-> transcription.duration,
                          status |-> "processing",
                          transcription |-> << >>]}]
            /\ pc' = "transcribed"
            /\ UNCHANGED app
       ELSE StoreFails /\ UNCHANGED db
  /\ UNCHANGED <<transcription, metrics, clarityScore, structureScore, paceScore, runs,
                 fixture, recorder, recordings, handlers, analyzer>>

\* Step 5: the update of the session (transcription, status 'completed')
\* returns; its result is not read
StoreTranscription ==
  /\ pc = "done"
  /\ \E ok \in BOOLEAN :
       db' = [db EXCEPT !.interview_sessions =
                {IF ok /\ s.id = "session"
                 THEN [s EXCEPT !.transcription = transcription.text,
                                !.status = "completed"]
                 ELSE s : s \in @}]
  /\ pc' = "insertFeedback"
  /\ UNCHANGED <<transcription, metrics, clarityScore, structureScore, paceScore, runs,
                 fixture, app, recorder, recordings, handlers, analyzer>>

\* Step 6: the insert into ai_feedback returns; if (feedbackError) throw
StoreFeedback ==
  /\ pc = "insertFeedback"
  /\ \E ok \in BOOLEAN :
       IF ok /\ AcceptsFeedback(db, runs[Len(runs)])
       THEN /\ db' = [db EXCEPT !.ai_feedback = @ \cup {runs[Len(runs)]}]
            /\ pc' = "insertProgress"
            /\ UNCHANGED app
       ELSE StoreFails /\ UNCHANGED db
  /\ UNCHANGED <<transcription, metrics, clarityScore, structureScore, paceScore, runs,
                 fixture, recorder, recordings, handlers, analyzer>>

\* Step 7: the insert into progress_metrics returns; its result is not
\* read; the feedback is shown
StoreProgress ==
  /\ pc = "insertProgress"
  /\ \E ok \in BOOLEAN :
       db' = [db EXCEPT !.progress_metrics =
                IF ok /\ IsInteger(runs[Len(runs)].overall_score)
                      /\ runs[Len(runs)].overall_score.n \in 0..100
                THEN @ \cup {[session_id |-> "session",
                              average_score |-> runs[Len(runs)].overall_score,
                              sessions_count |-> 1]}
                ELSE @]
  /\ pc' = "shown"
  /\ app' = [app EXCEPT !.isProcessing = FALSE, !.currentView = "feedback"]
  /\ UNCHANGED <<transcription, metrics, clarityScore, structureScore, paceScore, runs,
                 fixture, recorder, recordings, handlers, analyzer>>

NextStore ==
  \/ StoreSession
  \/ AnalyzeSpeechMetrics
  \/ CalculateClarityScore
  \/ CalculateStructureScore
  \/ CalculatePaceScore
  \/ GenerateAIFeedback
  \/ StoreTranscription
  \/ StoreFeedback
  \/ StoreProgress

SpecStore == InitStore /\ [][NextStore]_vars

\* C25: in every variant of handleRecordingComplete a session has the
\* status 'completed' only when the ai_feedback row of that session has
\* been inserted without error; a session whose feedback insert failed is
\* never 'completed'.
\* (The variant that calls the batch engine updates the session to
\* 'completed' in Step 5, before it inserts the feedback in Step 6, so this
\* is violated.)
C25_CompletedOnlyWithFeedback ==
  \A s \in db.interview_sessions :
    s.status = "completed" => \E f \in db.ai_feedback : f.session_id = s.id

(***************************************************************************)
(* The third variant of InterviewRecorder (InterviewRecorder.tsx 499-776): *)
(* no speech analysis, a chunk check in onstop, an onerror handler         *)
(* (specification SpecRecorder3)                                           *)
(***************************************************************************)
MaxStarts == 2
MaxChunks == 1

\* the state and refs of the component after its first render: media is the
\* state of getUserMedia, chunks the length of chunksRef.current, timerRef
\* the id held by timerRef.current (0: null), intervals the ids of the
\* intervals that are set and not cleared, elapsed the whole seconds since
\* startTimeRef.current, current the recorder held by mediaRecorderRef
FreshRecorder3 ==
  [mounted |-> TRUE, media |-> "pending", isRecording |-> FALSE,
   recordingTime |-> 0, error |-> FALSE, chunks |-> 0, timerRef |-> 0,
   intervals |-> {}, elapsed |-> 0, current |-> 0]

\* the cleanup of useEffect(..., []): the interval of timerRef.current is
\* cleared (the stream it tests is the null of the first render)
Unmounted3(r) ==
  [r EXCEPT !.mounted = FALSE, !.intervals = @ \ {r.timerRef}]

InitRecorder3 ==
  /\ transcription = [text |-> << >>, words |-> << >>, duration |-> 0]
  /\ pc = "idle"
  /\ metrics = NoMetrics
  /\ clarityScore = Num(0)
  /\ structureScore = Num(0)
  /\ paceScore = Num(0)
  /\ runs = << >>
  /\ fixture = NoFixture
  /\ app \in {[NoApp EXCEPT !.apiKey = key, !.currentView = "session"] :
                key \in BOOLEAN}
  /\ recorder = FreshRecorder3
  /\ recordings = << >>
  /\ handlers = << >>
  /\ db = EmptyDb
  /\ analyzer = FreshAnalyzer(TRUE)

\* initializeMedia: getUserMedia resolves (setStream, setMediaInitialized)
\* or rejects (setError)
InitializeMedia3 ==
  /\ recorder.media = "pending"
  /\ \E granted \in BOOLEAN :
       recorder' = IF ~recorder.mounted THEN [recorder EXCEPT !.media = "gone"]
                   ELSE IF granted THEN [recorder EXCEPT !.media = "granted", !.error = FALSE]
                   ELSE [recorder EXCEPT !.media = "denied", !.error = TRUE]
  /\ UNCHANGED <<app, recordings, handlers, db, engineVars, analyzer>>

\* startRecording (the button is enabled with a stream, mediaInitialized
\* and not isRecording): chunksRef is emptied; when new MediaRecorder or
\* start() throws only the error is set; otherwise a new interval is set
\* and its id stored in timerRef.current, whatever id was there
StartRecording3 ==
  /\ recorder.mounted /\ recorder.media = "granted" /\ ~recorder.isRecording
  /\ Len(recordings) < MaxStarts
  /\ \E throws \in BOOLEAN :
       IF throws
       THEN /\ recorder' = [recorder EXCEPT !.chunks = 0, !.error = TRUE]
            /\ UNCHANGED recordings
       ELSE /\ recordings' = Append(recordings,
                                    [captured |-> recorder.recordingTime,
                                     phase |-> "recording", called |-> FALSE])
            /\ recorder' = [recorder EXCEPT
                 !.chunks = 0, !.isRecording = TRUE, !.error = FALSE,
                 !.current = Len(recordings) + 1, !.elapsed = 0,
                 !.timerRef = Len(recordings) + 1,
                 !.intervals = @ \cup {Len(recordings) + 1}]
  /\ UNCHANGED <<app, handlers, db, engineVars, analyzer>>

\* an interval callback: setRecordingTime(Math.floor((Date.now() -
\* startTimeRef.current) / 1000)), one second later
Tick3 ==
  /\ recorder.mounted /\ recorder.intervals # {}
  /\ recorder.elapsed < MaxSeconds
  /\ recorder' = [recorder EXCEPT !.elapsed = @ + 1, !.recordingTime = recorder.elapsed + 1]
  /\ UNCHANGED <<app, recordings, handlers, db, engineVars, analyzer>>

\* mediaRecorder.ondataavailable of recorder n with a chunk of positive
\* size: it is pushed to chunksRef.current (an empty chunk changes nothing)
DataAvailable3(n) ==
  /\ recordings[n].phase \in {"recording", "stopping"}
  /\ recorder.chunks < MaxChunks
  /\ recorder' = [recorder EXCEPT !.chunks = @ + 1]
  /\ UNCHANGED <<app, recordings, handlers, db, engineVars, analyzer>>

\* mediaRecorder.onerror of recorder n: setError, setIsRecording(false);
\* the MediaRecorder that failed becomes inactive and its stop event is due
RecorderError3(n) ==
  /\ recordings[n].phase = "recording"
  /\ recordings' = [recordings EXCEPT ![n].phase = "stopping"]
  /\ recorder' = IF recorder.mounted
                 THEN [recorder EXCEPT !.error = TRUE, !.isRecording = FALSE]
                 ELSE recorder
  /\ UNCHANGED <<app, handlers, db, engineVars, analyzer>>

\* stopRecording: stop() unless the recorder is inactive,
\* setIsRecording(false), clearInterval(timerRef.current)
StopRecording3 ==
  /\ recorder.mounted /\ recorder.isRecording /\ recorder.current > 0
  /\ recordings' = [recordings EXCEPT ![recorder.current].phase =
                      IF @ = "recording" THEN "stopping" ELSE @]
  /\ recorder' = [recorder EXCEPT !.isRecording = FALSE,
                                  !.intervals = @ \ {recorder.timerRef}]
  /\ UNCHANGED <<app, handlers, db, engineVars, analyzer>>

\* mediaRecorder.onstop of recorder n: without a chunk it sets the error
\* and returns; otherwise onRecordingComplete(audioBlob, videoBlob,
\* recordingTime) with the recordingTime of the render of startRecording;
\* handleRecordingComplete sets isProcessing and the recorder is unmounted
OnStop3(n) ==
  /\ recordings[n].phase = "stopping"
  /\ IF recorder.chunks = 0
     THEN /\ recordings' = [recordings EXCEPT ![n].phase = "stopped"]
          /\ recorder' = IF recorder.mounted THEN [recorder EXCEPT !.error = TRUE]
                         ELSE recorder
          /\ UNCHANGED <<app, handlers>>
     ELSE /\ recordings' = [recordings EXCEPT ![n].phase = "stopped", ![n].called = TRUE]
          /\ handlers' = Append(handlers,
                                NewRun(n, recordings[n].captured,
                                       [given |-> FALSE, value |-> NoAnalysis]))
          /\ app' = [app EXCEPT !.isProcessing = TRUE]
          /\ recorder' = IF recorder.mounted THEN Unmounted3(recorder) ELSE recorder
  /\ UNCHANGED <<db, engineVars, analyzer>>

\* Cancel: handleCancelRecording sets the view to the dashboard and the
\* recorder is unmounted
Cancel3 ==
  /\ recorder.mounted
  /\ app' = [app EXCEPT !.currentView = "dashboard"]
  /\ recorder' = Unmounted3(recorder)
  /\ UNCHANGED <<recordings, handlers, db, engineVars, analyzer>>

NextRecorder3 ==
  \/ InitializeMedia3
  \/ StartRecording3
  \/ Tick3
  \/ StopRecording3
  \/ Cancel3
  \/ \E n \in 1..Len(recordings) :
       \/ DataAvailable3(n)
       \/ RecorderError3(n)
       \/ OnStop3(n)

SpecRecorder3 == InitRecorder3 /\ [][NextRecorder3]_vars

\* C28: in the recorder, whatever the sequence of start, stop, MediaRecorder
\* error and unmount events, at most one recording timer interval is set
\* and not cleared, and none is while isRecording is false.
\* (onerror of the third variant sets isRecording to false and leaves the
\* interval running, and the next startRecording sets a second one, so this
\* is violated.)
C28_OneTimerOnlyWhileRecording ==
  /\ Cardinality(recorder.intervals) <= 1
  /\ recorder.intervals # {} => recorder.isRecording
=============================================================================
